---- MODULE Spec2Model ----
(***************************************************************************)
(* Message relay and device-state engine of the gas-station monitor.       *)
(*                                                                         *)
(* The relay (backend/app/services/mqtt_service.py) runs on one MQTT       *)
(* worker thread and handles one inbound message at a time; each database  *)
(* round trip of a handler is one step of the relay process below.  The    *)
(* administrative REST handlers (backend/app/api/devices.py) run on their  *)
(* own request threads (app.run(threaded=True)) and interleave with the    *)
(* relay at those steps.                                                   *)
(*                                                                         *)
(* Strings that the code takes apart (topics, IMEIs) are sequences of      *)
(* tokens, the token "/" being the topic separator.  Payload texts are     *)
(* opaque strings; json.loads is a table from text to parsed value.        *)
(* Time is the ordinal of the inbound message being processed.             *)
(***************************************************************************)
EXTENDS Integers, Sequences, FiniteSets, TLC

VARIABLES
    devices,      \* table devices: a set of rows
    stations,     \* table stations: a set of rows
    commLogs,     \* table comm_logs: rows in insertion order
    alarmLogs,    \* table alarm_logs: rows in insertion order
    published,    \* every mqtt_client.publish call made, in order
    pc,           \* position of the relay worker
    cur,          \* locals of the message being processed; rsnap and snap record the
                  \* devices table as the handler read it for the receive row and for routing
    pending,      \* rows added to the relay's session and not yet committed
    delivered,    \* number of inbound messages handed to on_message
    areq,         \* per admin request thread: the request in progress and last response
    adminOps,     \* number of administrative requests started
    limits,       \* how many messages and requests the environment issues in this run
    users,        \* table users: a set of rows
    tokens,       \* the user ids for which login has issued an access token
    link,         \* the MQTT connection: the client's state, the broker's subscriptions
                  \* for its session, connections made and device messages discarded
    call,         \* per request thread: the identity and credentials of its last request
    autoinc       \* the AUTO_INCREMENT counters of the users and stations tables

vars == <<devices, stations, commLogs, alarmLogs, published, pc, cur, pending,
          delivered, areq, adminOps, limits, users, tokens, link, call, autoinc>>

----------------------------------------------------------------------------
(* Bounds *)

MaxMsgs == 1
MaxAdminOps == 1
\* concurrent administrative requests on tables with no device bound yet
BindMsgs == 1
BindAdminOps == 2
\* consecutive messages, any step of which may fail
FaultMsgs == 2
\* the connection: messages delivered, connection attempts after the first,
\* messages the broker discards, tokens of an IMEI on a device's topic
ConnMsgs == 2
MaxConnects == 3
MaxDropped == 2
MaxImeiLen == 2
\* requests to the REST API, logins included
AuthOps == 2
\* calls of start_mqtt_service, and messages delivered after them
MaxStarts == 3
StartMsgs == 1
\* messages delivered to the static forwarder
ForwardMsgs == 2
\* requests when station deletes meet binds and unbinds
DeleteAdminOps == 2
\* messages and unbind requests when unbinding is followed by later messages
UnbindMsgs == 2
UnbindAdminOps == 1

\* IMEIs seen on topics and in administrative requests (one topic segment each)
ImeiSeq == << <<"d1">>, <<"d2">>, <<"d3">> >>
IMEIs == {ImeiSeq[i] : i \in 1..Len(ImeiSeq)}
Stations == {1, 2}
ThreadSeq == <<"a1", "a2">>
AdminThreads == {ThreadSeq[i] : i \in 1..Len(ThreadSeq)}

----------------------------------------------------------------------------
(* Configuration and column values *)

INDOOR_PUB_PREFIX == <<"/", "AIR8000", "/", "PUB", "/">>
INDOOR_SUB_PREFIX == <<"/", "AIR8000", "/", "SUB", "/">>
OUTDOOR_PUB_PREFIX == <<"/", "780EHV", "/", "PUB", "/">>
OUTDOOR_SUB_PREFIX == <<"/", "780EHV", "/", "SUB", "/">>

Types == {"indoor", "outdoor"}
\* SQL NULL in an integer column, in a string column, in an IMEI column
NullId == 0
NullStr == "NULL"
NullImei == <<"NULL">>

----------------------------------------------------------------------------
(* Python string operations on token sequences *)

\* a prefix test that compares the device family only, not the direction
StartsWithFamily(s, p) == Len(s) >= 2 /\ s[2] = p[2]

\* str.startswith
StartsWith(s, p) == Len(s) >= Len(p) /\ SubSeq(s, 1, Len(p)) = p

\* a split that keeps the separator in front of the last segment
LastSegmentWithSep(s) ==
    LET seps == {i \in 1..Len(s) : s[i] = "/"}
    IN  IF seps = {} THEN s
        ELSE SubSeq(s, CHOOSE i \in seps : \A j \in seps : j <= i, Len(s))

\* str.split('/')[-1]: what follows the last separator (the whole string if none)
LastSegment(s) ==
    LET seps == {i \in 1..Len(s) : s[i] = "/"}
    IN  IF seps = {} THEN s
        ELSE SubSeq(s, (CHOOSE i \in seps : \A j \in seps : j <= i) + 1, Len(s))

\* every device topic handed to the indoor handler
TopicClassAllIndoor(topic) ==
    IF StartsWith(topic, INDOOR_PUB_PREFIX) \/ StartsWith(topic, OUTDOOR_PUB_PREFIX)
    THEN "indoor"
    ELSE "none"

\* on_message's dispatch on the topic prefix: the handler the topic selects
TopicClass(topic) ==
    IF StartsWith(topic, INDOOR_PUB_PREFIX) THEN "indoor"
    ELSE IF StartsWith(topic, OUTDOOR_PUB_PREFIX) THEN "outdoor"
    ELSE "none"

PubPrefix(kind) == IF kind = "indoor" THEN INDOOR_PUB_PREFIX ELSE OUTDOOR_PUB_PREFIX

----------------------------------------------------------------------------
(* Payload texts and json.loads *)

P_GARBAGE == "garbage"
P_BJ1 == "{\"bj\": 1}"
P_BJ0 == "{\"bj\": 0}"
P_BJS1 == "{\"bj\": \"1\"}"
P_BJSX == "{\"bj\": \"x\"}"
P_VBAT == "{\"vbat\": 3.1}"
P_NUM == "7"
P_VBATS == "{\"vbat\": \"low\"}"
\* bytes that are not UTF-8
P_BADUTF8 == "\\xff\\xfe"

Payloads == {P_GARBAGE, P_BJ1, P_BJ0, P_BJS1, P_BJSX, P_VBAT, P_NUM}

\* msg.payload.decode('utf-8'): FALSE when it raises UnicodeDecodeError
Utf8Decodes(p) == p # P_BADUTF8

\* a JSON scalar: its Python type, its literal text, its value when an int
JInt(n, lit) == [t |-> "int", s |-> lit, n |-> n]
JStr(lit) == [t |-> "str", s |-> lit, n |-> 0]
JFloat(lit) == [t |-> "float", s |-> lit, n |-> 0]
JNone == [t |-> "none", s |-> "", n |-> 0]

JDict(keys, bj, vbat) == [ok |-> TRUE, kind |-> "dict", keys |-> keys, bj |-> bj, vbat |-> vbat]
JScalar == [ok |-> TRUE, kind |-> "number", keys |-> {}, bj |-> JNone, vbat |-> JNone]
NoData == [ok |-> FALSE, kind |-> "none", keys |-> {}, bj |-> JNone, vbat |-> JNone]

\* json.loads(payload); ok = FALSE when it raises
JsonLoads(p) ==
    CASE p = P_BJ1  -> JDict({"bj"}, JInt(1, "1"), JNone)
      [] p = P_BJ0  -> JDict({"bj"}, JInt(0, "0"), JNone)
      [] p = P_BJS1 -> JDict({"bj"}, JStr("1"), JNone)
      [] p = P_BJSX -> JDict({"bj"}, JStr("x"), JNone)
      [] p = P_VBAT -> JDict({"vbat"}, JNone, JFloat("3.1"))
      [] p = P_VBATS -> JDict({"vbat"}, JNone, JStr("low"))
      [] p = P_NUM  -> JScalar
      [] OTHER      -> NoData

\* `key in data`: "yes", "no", or "raise" (TypeError on a number, None or bool)
PyIn(key, data) ==
    IF data.kind \in {"dict", "list", "str"}
    THEN (IF key \in data.keys THEN "yes" ELSE "no")
    ELSE "raise"

\* int(s) for a str s: ok = FALSE when it raises ValueError
PyInt(s) ==
    CASE s = "1" -> [ok |-> TRUE, n |-> 1]
      [] s = "0" -> [ok |-> TRUE, n |-> 0]
      [] OTHER   -> [ok |-> FALSE, n |-> 0]

\* `v is True` in place of `v == 1`
PyIsTrue(v) == v.t = "bool" /\ v.s = "true"

\* v == 1 for a JSON scalar v
PyEq1(v) ==
    \/ v.t = "int" /\ v.n = 1
    \/ v.t = "float" /\ v.s = "1.0"
    \/ v.t = "bool" /\ v.s = "true"

\* the 'bj' test without the str-to-int conversion of lines 171-172
AlarmTypeNoCoercion(data) ==
    CASE PyIn("bj", data) = "raise" -> "raise"
      [] PyIn("bj", data) = "no" -> "none"
      [] data.kind # "dict" -> "raise"
      [] OTHER -> (IF PyEq1(data.bj) THEN "alarm" ELSE "cancel")

\* lines 169-174 of handle_indoor_message: "none" (no 'bj'), "raise", "alarm" or "cancel"
AlarmTypeOf(data) ==
    CASE PyIn("bj", data) = "raise" -> "raise"
      [] PyIn("bj", data) = "no" -> "none"
      [] data.kind # "dict" -> "raise"
      [] data.bj.t = "str" ->
            (IF ~PyInt(data.bj.s).ok THEN "raise"
             ELSE IF PyInt(data.bj.s).n = 1 THEN "alarm" ELSE "cancel")
      [] OTHER -> (IF PyEq1(data.bj) THEN "alarm" ELSE "cancel")

\* json.dumps of a list of IMEIs
JsonDumps(list) == [json |-> "array", items |-> list]

----------------------------------------------------------------------------
(* The devices table *)

DeviceRow(id, imei, type, name, sid, seen, vbat) ==
    [id |-> id, imei |-> imei, type |-> type, name |-> name,
     station_id |-> sid, last_seen |-> seen, vbat |-> vbat]

\* the lookup comparing the stored IMEI with the whole topic
ByTopic(tbl, imei) == {d \in tbl : d.imei = INDOOR_PUB_PREFIX \o imei}

\* Device.query.filter_by(imei=imei)
ByImei(tbl, imei) == {d \in tbl : d.imei = imei}

\* the target query without its station filter, and without its type filter
ByTypeOnly(tbl, sid, type) == {d \in tbl : d.type = type}
ByStationOnly(tbl, sid, type) == {d \in tbl : d.station_id = sid}

\* the target query that also returns the unbound devices of the class
ByTypeOrUnbound(tbl, sid, type) ==
    {d \in tbl : d.type = type /\ d.station_id \in {sid, NullId}}

\* Device.query.filter_by(station_id=sid, type=type)
ByStationType(tbl, sid, type) == {d \in tbl : d.station_id = sid /\ d.type = type}

\* Device.query.filter_by(station_id=sid)
ByStation(tbl, sid) == {d \in tbl : d.station_id = sid}

\* the row of a primary key (a session reloading an expired object)
ById(tbl, id) == CHOOSE d \in tbl : d.id = id

\* AUTO_INCREMENT of devices.id
NextDeviceId(tbl) ==
    IF tbl = {} THEN 1
    ELSE (CHOOSE m \in {d.id : d \in tbl} : \A d \in tbl : d.id <= m) + 1

\* a devices table without the UNIQUE constraint on imei
InsertAlways(tbl, imei) == TRUE

\* the UNIQUE constraint on devices.imei: does INSERT of this IMEI commit?
InsertAllowed(tbl, imei) == ByImei(tbl, imei) = {}

\* the UPDATE of last_seen that also clears the station binding
SetLastSeenUnbinds(tbl, id, seen) ==
    {IF d.id = id THEN [d EXCEPT !.last_seen = seen, !.station_id = NullId] ELSE d : d \in tbl}

\* UPDATE devices SET last_seen = seen WHERE id = id
SetLastSeen(tbl, id, seen) ==
    {IF d.id = id THEN [d EXCEPT !.last_seen = seen] ELSE d : d \in tbl}

\* the UPDATE of vbat without its WHERE clause
SetVbatNoWhere(tbl, id, vbat) == {[d EXCEPT !.vbat = vbat] : d \in tbl}

\* UPDATE devices SET vbat = vbat WHERE id = id
SetVbat(tbl, id, vbat) ==
    {IF d.id = id THEN [d EXCEPT !.vbat = vbat] ELSE d : d \in tbl}

\* an unbind that removes the device row instead of clearing its station
SetStationDropsRow(tbl, id, sid) ==
    IF sid = NullId THEN {d \in tbl : d.id # id}
    ELSE {IF d.id = id THEN [d EXCEPT !.station_id = sid] ELSE d : d \in tbl}

\* UPDATE devices SET station_id = sid WHERE id = id
SetStation(tbl, id, sid) ==
    {IF d.id = id THEN [d EXCEPT !.station_id = sid] ELSE d : d \in tbl}

\* a handler without the binding check
NotBoundSkipped(sid) == FALSE

\* what committing a value to the FLOAT column devices.vbat can do: store the
\* number; for a text that is no number, fail the statement (MySQL strict mode)
\* or store 0 (non-strict mode)
FloatColumn(v) ==
    IF v.t \in {"int", "float"} THEN {[ok |-> TRUE, s |-> v.s]}
    ELSE {[ok |-> FALSE, s |-> NullStr], [ok |-> TRUE, s |-> "0"]}

\* `not device.station_id` (lines 131 and 223)
NotBound(sid) == sid = NullId

\* the orders in which a query without ORDER BY may return a set of rows
Orders(S) ==
    {q \in [1..Cardinality(S) -> S] : \A i, j \in 1..Cardinality(S) : i # j => q[i] # q[j]}

----------------------------------------------------------------------------
(* The stations and users tables *)

StationRow(id, name, code, status) ==
    [id |-> id, name |-> name, code |-> code, status |-> status]

StationIds(tbl) == {r.id : r \in tbl}

\* set_password / check_password: the stored hash is that of one password
PasswordHash(password) == <<"bcrypt", password>>
CheckPassword(user, password) == user.password_hash = PasswordHash(password)

UserRow(id, username, password, role, status) ==
    [id |-> id, username |-> username, password_hash |-> PasswordHash(password),
     role |-> role, status |-> status]

\* the MQTT filters on_connect subscribes to (the prefix followed by '+')
PubFilters == {INDOOR_PUB_PREFIX, OUTDOOR_PUB_PREFIX}

----------------------------------------------------------------------------
(* Rows of the audit tables *)

\* CommLog(direction='receive', ...): lines 112-119 and 211-218
ReceiveLog(kind, imei, payload, sid) ==
    [direction |-> "receive", source_type |-> kind, source_imei |-> imei,
     target_type |-> NullStr, target_imei |-> NullImei,
     topic |-> PubPrefix(kind) \o imei, payload |-> payload, station_id |-> sid]

\* CommLog(direction='forward', ...): lines 154-163 and 243-252
ForwardLog(kind, imei, ttype, timei, topic, payload, sid) ==
    [direction |-> "forward", source_type |-> kind, source_imei |-> imei,
     target_type |-> ttype, target_imei |-> timei,
     topic |-> topic, payload |-> payload, station_id |-> sid]

\* AlarmLog(...): lines 175-181
AlarmRow(sid, imei, atype, outdoor_imeis) ==
    [station_id |-> sid, indoor_imei |-> imei, alarm_type |-> atype,
     outdoor_imeis |-> JsonDumps(outdoor_imeis), forward_status |-> 1]

\* a publish of the re-serialised payload
PublishReencoded(topic, payload) == [topic |-> topic, payload |-> "json.dumps(json.loads(payload))"]

\* the argument list of one mqtt_client.publish call
Publish(topic, payload) == [topic |-> topic, payload |-> payload]

----------------------------------------------------------------------------
(* Initial state *)

NoCur ==
    [kind |-> "none", topic |-> <<>>, payload |-> "", imei |-> NullImei, devId |-> 0,
     data |-> NoData, station |-> NullId, targets |-> <<>>, idx |-> 0,
     outdoor_imeis |-> <<>>, alarm_type |-> "none", result |-> "none",
     rsnap |-> {}, snap |-> {}, c0 |-> 0, a0 |-> 0, p0 |-> 0, after |-> "none",
     ssnap |-> {}, unsent |-> {}]

\* the fields a user or station request body may carry (absent: NullStr, -1, <<>>)
NoPatch ==
    [username |-> NullStr, password |-> NullStr, role |-> NullStr, status |-> -1,
     name |-> NullStr, code |-> <<>>]

IdleReq ==
    [op |-> "idle", imei |-> NullImei, arg |-> NullStr, sid |-> NullId, code |-> 0,
     data |-> NoPatch]

\* a request thread that has served no request: no identity, no credentials
NoCall == [uid |-> 0, username |-> JNone, password |-> JNone]

\* what an administrator may have set up for the i-th IMEI before the relay starts:
\* the first is an indoor unit, the last an outdoor unit, the others either
Setups(i) ==
    {<<"absent", NullId>>}
    \cup ((IF i = 1 THEN {"indoor"} ELSE IF i = Len(ImeiSeq) THEN {"outdoor"} ELSE Types)
          \X ({NullId} \cup Stations))

\* the devices tables the administrative layer can have produced: at most one
\* indoor device bound to a station, no device seen yet
InitTables ==
    {{DeviceRow(i, ImeiSeq[i], f[i][1], "manual", f[i][2], 0, NullStr) :
        i \in {j \in 1..Len(ImeiSeq) : f[j][1] # "absent"}} :
     f \in {g \in [1..Len(ImeiSeq) -> UNION {Setups(i) : i \in 1..Len(ImeiSeq)}] :
              /\ \A i \in 1..Len(ImeiSeq) : g[i] \in Setups(i)
              /\ \A i, j \in 1..Len(ImeiSeq) :
                 (i # j /\ g[i][1] = "indoor" /\ g[j][1] = "indoor" /\ g[i][2] # NullId)
                    => g[i][2] # g[j][2]}}

\* the stations an administrator created before the relay starts
InitStations == {StationRow(i, "station", <<"code", i>>, 1) : i \in Stations}

\* create_default_admin, and two accounts the administrator created: an
\* ordinary user, and one that was disabled afterwards
InitUsers ==
    {UserRow(1, "admin", "admin123", "admin", 1),
     UserRow(2, "user", "user123", "user", 1),
     UserRow(3, "former", "former123", "user", 0)}

\* the connection after the first on_connect: both filters subscribed
LinkUp == [state |-> "connected", subs |-> PubFilters, conns |-> 1, attempts |-> 1,
           dropped |-> 0, started |-> TRUE, clients |-> 1, threads |-> 1, calls |-> 1]

\* the module globals of mqtt_service before start_mqtt_service is called (11-13)
LinkOff == [state |-> "off", subs |-> {}, conns |-> 0, attempts |-> 0,
            dropped |-> 0, started |-> FALSE, clients |-> 0, threads |-> 0, calls |-> 0]

\* the state when the relay has connected: the tables as the administrator left
\* them, nothing logged or published, every thread idle; toks: the accounts
\* holding an unexpired access token
BootAt(tables, lim, toks, ln) ==
    /\ devices \in tables
    /\ stations = InitStations
    /\ commLogs = <<>>
    /\ alarmLogs = <<>>
    /\ published = <<>>
    /\ pc = "idle"
    /\ cur = NoCur
    /\ pending = <<>>
    /\ delivered = 0
    /\ areq = [t \in AdminThreads |-> IdleReq]
    /\ adminOps = 0
    /\ limits = lim
    /\ users = InitUsers
    /\ tokens = toks
    /\ link = ln
    /\ call = [t \in AdminThreads |-> NoCall]
    /\ autoinc = [users |-> Cardinality(InitUsers), stations |-> Cardinality(InitStations)]

\* the administrator (create_default_admin's account) is logged in

BootWith(tables, lim, toks) == BootAt(tables, lim, toks, LinkUp)

Boot(tables, lim) == BootWith(tables, lim, {1})

Init == Boot(InitTables, [msgs |-> MaxMsgs, admin |-> MaxAdminOps])

----------------------------------------------------------------------------
(* The relay worker: on_message and the two handlers *)

\* the inbound messages the broker may deliver: <<topic, payload>>
Inbound ==
    ({INDOOR_PUB_PREFIX \o i : i \in IMEIs} \X Payloads)
    \cup ({OUTDOOR_PUB_PREFIX \o i : i \in IMEIs} \X {P_GARBAGE, P_VBAT, P_BJ1})
    \cup ({OUTDOOR_PUB_PREFIX \o ImeiSeq[Len(ImeiSeq)]} \X {P_VBATS})
    \cup ({INDOOR_PUB_PREFIX \o ImeiSeq[1]} \X {P_BADUTF8})
    \cup ({INDOOR_SUB_PREFIX \o ImeiSeq[1], <<"/", "OTHER", "/">> \o ImeiSeq[1]} \X {P_BJ1})

adminVars == <<stations, areq, adminOps, limits>>
acctVars == <<users, tokens, autoinc>>
authVars == <<acctVars, call>>
connVars == <<link>>

\* an except clause that leaves the failed message's uncommitted rows in the session
AbortKeepPending ==
    /\ pc' = "idle"
    /\ pending' = pending
    /\ cur' = [cur EXCEPT !.result = "error"]

\* an exception reaches on_message's except: the app context is torn down and the
\* session's uncommitted rows are discarded
Abort ==
    /\ pc' = "idle"
    /\ pending' = <<>>
    /\ cur' = [cur EXCEPT !.result = "error"]

\* a relay that drops a message equal to the one it handled last
OnMessageDedup(topic, payload) ==
    /\ pc = "idle"
    /\ link.state = "connected"
    /\ delivered < limits.msgs
    /\ delivered' = delivered + 1
    /\ LET kind == TopicClass(topic)
           imei == LastSegment(topic)
           c == [NoCur EXCEPT !.kind = kind, !.topic = topic, !.payload = payload,
                              !.imei = imei, !.c0 = Len(commLogs),
                              !.a0 = Len(alarmLogs), !.p0 = Len(published),
                              !.after = cur.result, !.ssnap = devices]
       IN  IF delivered >= 1 /\ topic = cur.topic /\ payload = cur.payload
           THEN /\ cur' = [c EXCEPT !.result = "ignored"]
                /\ pc' = "idle"
           ELSE IF ~Utf8Decodes(payload)
           THEN /\ cur' = [c EXCEPT !.result = "undecoded"]
                /\ pc' = "idle"
           ELSE IF kind = "none"
           THEN /\ cur' = [c EXCEPT !.result = "ignored"]
                /\ pc' = "idle"
           ELSE IF ByImei(devices, imei) = {}
           THEN /\ cur' = c
                /\ pc' = "insert"
           ELSE \E d \in ByImei(devices, imei) :
                /\ cur' = [c EXCEPT !.devId = d.id]
                /\ pc' = "touch"
    /\ UNCHANGED <<devices, commLogs, alarmLogs, published, pending, adminVars, authVars, connVars>>

\* a relay that hands a message to the handler of the sender's stored class
OnMessageByStoredClass(topic, payload) ==
    /\ pc = "idle"
    /\ link.state = "connected"
    /\ delivered < limits.msgs
    /\ delivered' = delivered + 1
    /\ LET imei == LastSegment(topic)
           kind == IF TopicClass(topic) # "none" /\ ByImei(devices, imei) # {}
                   THEN (CHOOSE d \in ByImei(devices, imei) : TRUE).type
                   ELSE TopicClass(topic)
           c == [NoCur EXCEPT !.kind = kind, !.topic = topic, !.payload = payload,
                              !.imei = imei, !.c0 = Len(commLogs),
                              !.a0 = Len(alarmLogs), !.p0 = Len(published),
                              !.after = cur.result, !.ssnap = devices]
       IN  IF ~Utf8Decodes(payload)
           THEN /\ cur' = [c EXCEPT !.result = "undecoded"]
                /\ pc' = "idle"
           ELSE IF kind = "none"
           THEN /\ cur' = [c EXCEPT !.result = "ignored"]
                /\ pc' = "idle"
           ELSE IF ByImei(devices, imei) = {}
           THEN /\ cur' = c
                /\ pc' = "insert"
           ELSE \E d \in ByImei(devices, imei) :
                /\ cur' = [c EXCEPT !.devId = d.id]
                /\ pc' = "touch"
    /\ UNCHANGED <<devices, commLogs, alarmLogs, published, pending, adminVars, authVars, connVars>>

\* on_message (76-94) up to the lookup of auto_register_device (262)
OnMessage(topic, payload) ==
    /\ pc = "idle"
    /\ link.state = "connected"
    /\ delivered < limits.msgs
    /\ delivered' = delivered + 1
    /\ LET kind == TopicClass(topic)
           imei == LastSegment(topic)
           c == [NoCur EXCEPT !.kind = kind, !.topic = topic, !.payload = payload,
                              !.imei = imei, !.c0 = Len(commLogs),
                              !.a0 = Len(alarmLogs), !.p0 = Len(published),
                              !.after = cur.result, !.ssnap = devices]
       IN  IF ~Utf8Decodes(payload)
           THEN /\ cur' = [c EXCEPT !.result = "undecoded"]
                /\ pc' = "idle"
           ELSE IF kind = "none"
           THEN /\ cur' = [c EXCEPT !.result = "ignored"]
                /\ pc' = "idle"
           ELSE IF ByImei(devices, imei) = {}
           THEN /\ cur' = c
                /\ pc' = "insert"
           ELSE \E d \in ByImei(devices, imei) :
                /\ cur' = [c EXCEPT !.devId = d.id]
                /\ pc' = "touch"
    /\ UNCHANGED <<devices, commLogs, alarmLogs, published, pending, adminVars, authVars, connVars>>

\* auto_register_device, the insert (266-273)
AutoRegister ==
    /\ pc = "insert"
    /\ IF InsertAllowed(devices, cur.imei)
       THEN /\ devices' = devices \cup
                   {DeviceRow(NextDeviceId(devices), cur.imei, cur.kind, "auto",
                              NullId, delivered, NullStr)}
            /\ cur' = [cur EXCEPT !.devId = NextDeviceId(devices)]
            /\ pc' = "touch"
            /\ UNCHANGED pending
       ELSE /\ Abort
            /\ UNCHANGED devices
    /\ UNCHANGED <<commLogs, alarmLogs, published, delivered, adminVars, authVars, connVars>>

\* handle_indoor_message 107-109: last_seen and commit
IndoorTouch ==
    /\ pc = "touch" /\ cur.kind = "indoor"
    /\ devices' = SetLastSeen(devices, cur.devId, delivered)
    /\ pc' = "recv"
    /\ UNCHANGED <<cur, commLogs, alarmLogs, published, pending, delivered, adminVars, authVars, connVars>>

\* handle_outdoor_message 197-208: last_seen, battery voltage and commit
OutdoorTouch ==
    /\ pc = "touch" /\ cur.kind = "outdoor"
    /\ LET data == JsonLoads(cur.payload)
           seen == SetLastSeen(devices, cur.devId, delivered)
       IN  IF data.ok /\ PyIn("vbat", data) = "yes" /\ data.kind = "dict"
           THEN \E w \in FloatColumn(data.vbat) :
                   IF w.ok
                   THEN /\ devices' = SetVbat(seen, cur.devId, w.s)
                        /\ pc' = "recv"
                        /\ UNCHANGED <<cur, pending>>
                   ELSE /\ Abort
                        /\ UNCHANGED devices
           ELSE /\ devices' = seen
                /\ pc' = "recv"
                /\ UNCHANGED <<cur, pending>>
    /\ UNCHANGED <<commLogs, alarmLogs, published, delivered, adminVars, authVars, connVars>>

\* the receive row left in the session, to be committed with the forward rows
IndoorReceiveNoCommit ==
    /\ pc = "recv" /\ cur.kind = "indoor"
    /\ pending' = Append(pending,
          ReceiveLog("indoor", cur.imei, cur.payload, ById(devices, cur.devId).station_id))
    /\ LET data == JsonLoads(cur.payload)
       IN  IF data.ok
           THEN /\ cur' = [cur EXCEPT !.data = data, !.rsnap = devices]
                /\ pc' = "route"
           ELSE /\ cur' = [cur EXCEPT !.result = "unparsed", !.rsnap = devices]
                /\ pc' = "idle"
    /\ UNCHANGED <<devices, alarmLogs, published, commLogs, delivered, adminVars, authVars, connVars>>

\* handle_indoor_message 111-128: the receive row (the expired device is reloaded
\* for its station_id), then json.loads
IndoorReceive ==
    /\ pc = "recv" /\ cur.kind = "indoor"
    /\ commLogs' = Append(commLogs,
          ReceiveLog("indoor", cur.imei, cur.payload, ById(devices, cur.devId).station_id))
    /\ LET data == JsonLoads(cur.payload)
       IN  IF data.ok
           THEN /\ cur' = [cur EXCEPT !.data = data, !.rsnap = devices]
                /\ pc' = "route"
           ELSE /\ cur' = [cur EXCEPT !.result = "unparsed", !.rsnap = devices]
                /\ pc' = "idle"
    /\ UNCHANGED <<devices, alarmLogs, published, pending, delivered, adminVars, authVars, connVars>>

\* handle_outdoor_message 210-220
OutdoorReceive ==
    /\ pc = "recv" /\ cur.kind = "outdoor"
    /\ commLogs' = Append(commLogs,
          ReceiveLog("outdoor", cur.imei, cur.payload, ById(devices, cur.devId).station_id))
    /\ cur' = [cur EXCEPT !.rsnap = devices]
    /\ pc' = "route"
    /\ UNCHANGED <<devices, alarmLogs, published, pending, delivered, adminVars, authVars, connVars>>

\* handle_indoor_message 130-143: binding check and the same-station outdoor query
IndoorRoute ==
    /\ pc = "route" /\ cur.kind = "indoor"
    /\ LET sid == ById(devices, cur.devId).station_id
           found == ByStationType(devices, sid, "outdoor")
       IN  IF NotBound(sid)
           THEN /\ cur' = [cur EXCEPT !.result = "unbound", !.snap = devices]
                /\ pc' = "idle"
           ELSE IF found = {}
           THEN /\ cur' = [cur EXCEPT !.station = sid, !.result = "notarget",
                                      !.snap = devices]
                /\ pc' = "idle"
           ELSE \E q \in Orders(found) :
                /\ cur' = [cur EXCEPT !.station = sid, !.snap = devices, !.idx = 1,
                                      !.targets = [i \in 1..Len(q) |-> q[i].imei]]
                /\ pc' = "publish"
    /\ UNCHANGED <<devices, commLogs, alarmLogs, published, pending, delivered, adminVars, authVars, connVars>>

\* handle_outdoor_message 222-235: binding check and the same-station indoor query
OutdoorRoute ==
    /\ pc = "route" /\ cur.kind = "outdoor"
    /\ LET sid == ById(devices, cur.devId).station_id
           found == ByStationType(devices, sid, "indoor")
       IN  IF NotBound(sid)
           THEN /\ cur' = [cur EXCEPT !.result = "unbound", !.snap = devices]
                /\ pc' = "idle"
           ELSE IF found = {}
           THEN /\ cur' = [cur EXCEPT !.station = sid, !.result = "notarget",
                                      !.snap = devices]
                /\ pc' = "idle"
           ELSE \E d \in found :
                /\ cur' = [cur EXCEPT !.station = sid, !.snap = devices, !.idx = 1,
                                      !.targets = <<d.imei>>]
                /\ pc' = "publish"
    /\ UNCHANGED <<devices, commLogs, alarmLogs, published, pending, delivered, adminVars, authVars, connVars>>

\* return codes of mqtt_client.publish (paho MQTT_ERR_SUCCESS, MQTT_ERR_NO_CONN);
\* the handlers discard the return value (149, 239)
MQTT_ERR_SUCCESS == 0
MQTT_ERR_NO_CONN == 4

\* a fan-out that lists a target only when its publish call succeeded
IndoorSendChecked(rc) ==
    /\ pc = "publish" /\ cur.kind = "indoor"
    /\ LET target == cur.targets[cur.idx]
           target_topic == OUTDOOR_SUB_PREFIX \o target
       IN  /\ published' = Append(published, Publish(target_topic, cur.payload))
           /\ pending' = Append(pending,
                 ForwardLog("indoor", cur.imei, "outdoor", target, target_topic,
                            cur.payload, cur.station))
           /\ cur' = [cur EXCEPT !.outdoor_imeis = IF rc = MQTT_ERR_SUCCESS
                                                    THEN Append(@, target) ELSE @,
                                 !.idx = @ + 1,
                                 !.unsent = IF rc = MQTT_ERR_SUCCESS THEN @
                                            ELSE @ \cup {target}]
           /\ pc' = IF cur.idx = Len(cur.targets) THEN "commit" ELSE "publish"
    /\ UNCHANGED <<devices, commLogs, alarmLogs, delivered, adminVars, authVars, connVars>>

\* handle_indoor_message 147-164: one turn of the fan-out loop, the publish call
\* returning rc
IndoorSend(rc) ==
    /\ pc = "publish" /\ cur.kind = "indoor"
    /\ LET target == cur.targets[cur.idx]
           target_topic == OUTDOOR_SUB_PREFIX \o target
       IN  /\ published' = Append(published, Publish(target_topic, cur.payload))
           /\ pending' = Append(pending,
                 ForwardLog("indoor", cur.imei, "outdoor", target, target_topic,
                            cur.payload, cur.station))
           /\ cur' = [cur EXCEPT !.outdoor_imeis = Append(@, target), !.idx = @ + 1,
                                 !.unsent = IF rc = MQTT_ERR_SUCCESS THEN @
                                            ELSE @ \cup {target}]
           /\ pc' = IF cur.idx = Len(cur.targets) THEN "commit" ELSE "publish"
    /\ UNCHANGED <<devices, commLogs, alarmLogs, delivered, adminVars, authVars, connVars>>

\* handle_outdoor_message 237-253: publish to the indoor device (the call
\* returning rc), add the forward row
OutdoorSend(rc) ==
    /\ pc = "publish" /\ cur.kind = "outdoor"
    /\ LET target == cur.targets[1]
           target_topic == INDOOR_SUB_PREFIX \o target
       IN  /\ published' = Append(published, Publish(target_topic, cur.payload))
           /\ pending' = Append(pending,
                 ForwardLog("outdoor", cur.imei, "indoor", target, target_topic,
                            cur.payload, cur.station))
           /\ cur' = [cur EXCEPT !.idx = @ + 1,
                                 !.unsent = IF rc = MQTT_ERR_SUCCESS THEN @
                                            ELSE @ \cup {target}]
           /\ pc' = "commit"
    /\ UNCHANGED <<devices, commLogs, alarmLogs, delivered, adminVars, authVars, connVars>>

\* the publish steps when the client hands the message to the broker
IndoorPublish == IndoorSend(MQTT_ERR_SUCCESS)
OutdoorPublish == OutdoorSend(MQTT_ERR_SUCCESS)

\* handle_indoor_message 166-174: commit of the forward rows, then the 'bj' test
IndoorCommit ==
    /\ pc = "commit" /\ cur.kind = "indoor"
    /\ commLogs' = commLogs \o pending
    /\ pending' = <<>>
    /\ LET atype == AlarmTypeOf(cur.data)
       IN  CASE atype = "none" ->
                   /\ cur' = [cur EXCEPT !.result = "forwarded"]
                   /\ pc' = "idle"
             [] atype = "raise" ->
                   /\ cur' = [cur EXCEPT !.result = "error"]
                   /\ pc' = "idle"
             [] OTHER ->
                   /\ cur' = [cur EXCEPT !.alarm_type = atype]
                   /\ pc' = "alarm"
    /\ UNCHANGED <<devices, alarmLogs, published, delivered, adminVars, authVars, connVars>>

\* the forward row written over the last row of the table
OutdoorCommitOverwrite ==
    /\ pc = "commit" /\ cur.kind = "outdoor"
    /\ commLogs' = SubSeq(commLogs, 1, Len(commLogs) - 1) \o pending
    /\ pending' = <<>>
    /\ cur' = [cur EXCEPT !.result = "forwarded"]
    /\ pc' = "idle"
    /\ UNCHANGED <<devices, alarmLogs, published, delivered, adminVars, authVars, connVars>>

\* handle_outdoor_message 254: commit of the forward row
OutdoorCommit ==
    /\ pc = "commit" /\ cur.kind = "outdoor"
    /\ commLogs' = commLogs \o pending
    /\ pending' = <<>>
    /\ cur' = [cur EXCEPT !.result = "forwarded"]
    /\ pc' = "idle"
    /\ UNCHANGED <<devices, alarmLogs, published, delivered, adminVars, authVars, connVars>>

\* handle_indoor_message 175-183: the alarm row (the device, expired by the commit
\* of the forward rows, is reloaded for its station_id)
IndoorAlarm ==
    /\ pc = "alarm"
    /\ alarmLogs' = Append(alarmLogs,
          AlarmRow(ById(devices, cur.devId).station_id, cur.imei, cur.alarm_type,
                   cur.outdoor_imeis))
    /\ cur' = [cur EXCEPT !.result = "alarmed"]
    /\ pc' = "idle"
    /\ UNCHANGED <<devices, commLogs, published, pending, delivered, adminVars, authVars, connVars>>

\* the steps of a handler after on_message has resolved the topic
HandlerSteps ==
    \/ AutoRegister
    \/ IndoorTouch
    \/ OutdoorTouch
    \/ IndoorReceive
    \/ OutdoorReceive
    \/ IndoorRoute
    \/ OutdoorRoute
    \/ IndoorPublish
    \/ OutdoorPublish
    \/ IndoorCommit
    \/ OutdoorCommit
    \/ IndoorAlarm

RelayNext ==
    \/ \E m \in Inbound : OnMessage(m[1], m[2])
    \/ HandlerSteps

----------------------------------------------------------------------------
(* The administrative request handlers (backend/app/api/devices.py), each on a
   request thread of its own *)

relayVars == <<commLogs, alarmLogs, published, pc, cur, pending, delivered, limits>>

\* station ids an administrative request may name; the last one does not exist
NoSuchStation == CHOOSE n \in 1..(Cardinality(Stations) + 1) : n \notin Stations
ReqStations == Stations \cup {NoSuchStation}

Respond(t, code) == areq' = [areq EXCEPT ![t] = [IdleReq EXCEPT !.code = code]]

\* a new request is served by the first free request thread
StartReq(t) ==
    /\ areq[t].op = "idle"
    /\ \A i, j \in 1..Len(ThreadSeq) : (i < j /\ ThreadSeq[j] = t) => areq[ThreadSeq[i]].op # "idle"
    /\ adminOps < limits.admin
    /\ adminOps' = adminOps + 1

\* create_device 90-107: validation and the existence check
CreateCheck(t, imei, type) ==
    /\ StartReq(t)
    /\ IF ByImei(devices, imei) # {}
       THEN Respond(t, 409)
       ELSE areq' = [areq EXCEPT ![t] = [IdleReq EXCEPT !.op = "create", !.imei = imei,
                                                       !.arg = type]]
    /\ UNCHANGED <<devices, stations, relayVars, acctVars, connVars>>

\* create_device 109-116: the insert; an IntegrityError is not handled (HTTP 500)
CreateCommit(t) ==
    /\ areq[t].op = "create"
    /\ IF InsertAllowed(devices, areq[t].imei)
       THEN /\ devices' = devices \cup
                   {DeviceRow(NextDeviceId(devices), areq[t].imei, areq[t].arg, "manual",
                              NullId, 0, NullStr)}
            /\ Respond(t, 200)
       ELSE /\ UNCHANGED devices
            /\ Respond(t, 500)
    /\ UNCHANGED <<stations, adminOps, relayVars, authVars, connVars>>

\* bind_device 155-188: the lookups and the conflict checks
BindCheck(t, imei, sid) ==
    /\ StartReq(t)
    /\ IF ByImei(devices, imei) = {} \/ sid \notin StationIds(stations)
       THEN Respond(t, 404)
       ELSE \E d \in ByImei(devices, imei) :
            IF d.station_id # NullId /\ d.station_id # sid
            THEN Respond(t, 409)
            ELSE IF d.type = "indoor"
                    /\ \E e \in ByStationType(devices, sid, "indoor") : e.imei # imei
            THEN Respond(t, 409)
            ELSE IF d.station_id = sid
            THEN Respond(t, 200)
            ELSE areq' = [areq EXCEPT ![t] = [IdleReq EXCEPT !.op = "bind", !.imei = imei,
                                                            !.sid = sid]]
    /\ UNCHANGED <<devices, stations, relayVars, acctVars, connVars>>

\* bind_device 190-191: UPDATE devices SET station_id and commit; the foreign key
\* on devices.station_id (models.py 100) refuses a station deleted since the
\* check, and the IntegrityError is not handled (HTTP 500)
BindCommit(t) ==
    /\ areq[t].op = "bind"
    /\ IF areq[t].sid \in StationIds(stations)
       THEN /\ \E d \in ByImei(devices, areq[t].imei) :
                  devices' = SetStation(devices, d.id, areq[t].sid)
            /\ Respond(t, 200)
       ELSE /\ UNCHANGED devices
            /\ Respond(t, 500)
    /\ UNCHANGED <<stations, adminOps, relayVars, authVars, connVars>>

\* unbind_device 202-218
Unbind(t, imei) ==
    /\ StartReq(t)
    /\ IF ByImei(devices, imei) = {}
       THEN /\ Respond(t, 404)
            /\ UNCHANGED devices
       ELSE /\ \E d \in ByImei(devices, imei) : devices' = SetStation(devices, d.id, NullId)
            /\ Respond(t, 200)
    /\ UNCHANGED <<stations, relayVars, acctVars, connVars>>

\* an endpoint protected by @jwt_required() only
JwtRequired(uid) == TRUE

\* admin_required 18-21: the account of the token's identity exists and is an admin
IsAdmin(uid) == \E u \in users : u.id = uid /\ u.role = "admin"

\* admin_required 22: 403, the endpoint is not run
Refuse(t) ==
    /\ StartReq(t)
    /\ Respond(t, 403)
    /\ UNCHANGED <<devices, stations, relayVars, acctVars, connVars>>

\* a request carrying the access token of account uid to an endpoint decorated
\* with @admin_required
AdminRequired(t, uid, Endpoint) ==
    /\ uid \in tokens
    /\ call' = [call EXCEPT ![t] = [NoCall EXCEPT !.uid = uid]]
    /\ IF IsAdmin(uid) THEN Endpoint ELSE Refuse(t)

AdminNext ==
    \/ \E t \in AdminThreads, uid \in tokens, imei \in IMEIs, type \in Types :
          AdminRequired(t, uid, CreateCheck(t, imei, type))
    \/ \E t \in AdminThreads : CreateCommit(t)
    \/ \E t \in AdminThreads, uid \in tokens, imei \in IMEIs, sid \in ReqStations :
          AdminRequired(t, uid, BindCheck(t, imei, sid))
    \/ \E t \in AdminThreads : BindCommit(t)
    \/ \E t \in AdminThreads, uid \in tokens, imei \in IMEIs :
          AdminRequired(t, uid, Unbind(t, imei))

Next == RelayNext \/ AdminNext

Spec == Init /\ [][Next]_vars

\* two administrative requests, which may overlap, and one message, starting
\* from tables with two indoor devices and no device bound
UnboundTables ==
    {tbl \in InitTables : /\ \A d \in tbl : d.station_id = NullId
                          /\ Cardinality({d \in tbl : d.type = "indoor"}) = 2}
InitBind == Boot(UnboundTables, [msgs |-> BindMsgs, admin |-> BindAdminOps])
SpecBind == InitBind /\ [][Next]_vars

----------------------------------------------------------------------------
(* Failures of the relay's collaborators.  Every one raises inside on_message's
   try block and ends in its except clause. *)

\* db.session.commit() raises (the server is unreachable or fails the statement):
\* lines 109, 121, 166, 183, 208, 220, 254, 273
CommitFails ==
    /\ pc \in {"insert", "touch", "recv", "commit", "alarm"}
    /\ Abort
    /\ UNCHANGED <<devices, commLogs, alarmLogs, published, delivered,
                   adminVars, authVars, connVars>>

\* mqtt_client.publish raises (lines 149 and 239)
PublishRaises ==
    /\ pc = "publish"
    /\ Abort
    /\ UNCHANGED <<devices, commLogs, alarmLogs, published, delivered,
                   adminVars, authVars, connVars>>

\* mqtt_client.publish returns an error code: the message is not sent, the
\* handler goes on as if it were
PublishNotSent == IndoorSend(MQTT_ERR_NO_CONN) \/ OutdoorSend(MQTT_ERR_NO_CONN)

FaultNext == CommitFails \/ PublishRaises \/ PublishNotSent

\* the relay alone, with failures: the first station has its indoor device and
\* one or two outdoor devices
FaultTables ==
    {tbl \in InitTables :
        /\ \A d \in tbl : d.station_id = 1
        /\ {d.imei : d \in {e \in tbl : e.type = "indoor"}} = {ImeiSeq[1]}
        /\ Cardinality(tbl) >= 2}
InitFault == Boot(FaultTables, [msgs |-> FaultMsgs, admin |-> 0])
NextFault == RelayNext \/ FaultNext
SpecFault == InitFault /\ [][NextFault]_vars

\* the relay and unbind requests alone: every device starts bound to the first
\* station, so an unbound stored device has been unbound by a request
UnbindNext ==
    \E t \in AdminThreads, uid \in tokens, imei \in IMEIs :
        AdminRequired(t, uid, Unbind(t, imei))
InitUnbind == Boot(FaultTables, [msgs |-> UnbindMsgs, admin |-> UnbindAdminOps])
NextUnbind == RelayNext \/ UnbindNext
SpecUnbind == InitUnbind /\ [][NextUnbind]_vars

----------------------------------------------------------------------------
(* The connection to the broker: paho's loop_forever on the relay's thread, and
   the broker's side of the session.  Devices publish at QoS 0 without the
   retain flag. *)

\* mqtt.Client(..., clean_session=True)
CLEAN_SESSION == TRUE

\* CONNACK return codes: accepted, server unavailable, not authorised
ConnReturnCodes == {0, 3, 5}

\* does a topic match the filter prefix + '+' (one level, no separator in it)?
Matches(prefix, topic) ==
    /\ Len(topic) >= Len(prefix)
    /\ \A i \in 1..Len(prefix) : topic[i] = prefix[i]
    /\ \A i \in (Len(prefix) + 1)..Len(topic) : topic[i] # "/"

\* subscriptions made once after the first connect instead of in on_connect
SubscribeOnFirst(rc, conns) == IF rc = 0 /\ conns = 0 THEN PubFilters ELSE {}

\* on_connect: the filters it subscribes (conns: connections accepted before)
OnConnect(rc, conns) == IF rc = 0 THEN PubFilters ELSE {}

\* the connection is lost; loop_forever calls on_disconnect between two callbacks
\* and starts retrying; the broker discards a clean session
ConnLost ==
    /\ pc = "idle"
    /\ link.state = "connected"
    /\ link' = [link EXCEPT !.state = "down",
                            !.subs = IF CLEAN_SESSION THEN {} ELSE @]
    /\ UNCHANGED <<devices, commLogs, alarmLogs, published, pc, cur, pending, delivered,
                   adminVars, authVars>>

\* loop_forever reconnects and the broker answers CONNACK rc: on_connect runs;
\* a refused connection is closed and retried
Reconnect(rc) ==
    /\ link.state = "down"
    /\ link.attempts < limits.conns
    /\ link' = IF rc = 0
               THEN [link EXCEPT !.state = "connected",
                                 !.subs = @ \cup OnConnect(rc, link.conns),
                                 !.conns = @ + 1, !.attempts = @ + 1]
               ELSE [link EXCEPT !.attempts = @ + 1]
    /\ UNCHANGED <<devices, commLogs, alarmLogs, published, pc, cur, pending, delivered,
                   adminVars, authVars>>

\* the topics devices publish on: a publish prefix and an IMEI of any shape, and
\* a topic of the other direction
ShapeTokens == {"d1", "d3", "/"}
ImeiShapes == UNION {[1..n -> ShapeTokens] : n \in 0..MaxImeiLen}
DeviceSends ==
    ({PubPrefix(k) \o i : k \in Types, i \in ImeiShapes} \cup {INDOOR_SUB_PREFIX \o ImeiSeq[1]})
    \X {P_BJ1}

Subscribed(topic) ==
    link.state = "connected" /\ \E f \in link.subs : Matches(f, topic)

\* the broker forwards a device's publish to the relay: on_message runs
Deliver(m) ==
    /\ Subscribed(m[1])
    /\ OnMessage(m[1], m[2])

\* the broker has no subscription of the relay matching a device's publish
Discard(m) ==
    /\ ~Subscribed(m[1])
    /\ link.dropped < limits.drops
    /\ link' = [link EXCEPT !.dropped = @ + 1]
    /\ UNCHANGED <<devices, commLogs, alarmLogs, published, pc, cur, pending, delivered,
                   adminVars, authVars>>

InitConn ==
    Boot(FaultTables, [msgs |-> ConnMsgs, admin |-> 0, conns |-> MaxConnects,
                       drops |-> MaxDropped])
NextConn ==
    \/ \E m \in DeviceSends : Deliver(m)
    \/ \E m \in DeviceSends : Discard(m)
    \/ ConnLost
    \/ \E rc \in ConnReturnCodes : Reconnect(rc)
    \/ HandlerSteps
SpecConn == InitConn /\ [][NextConn]_vars

\* a start call that starts again when the worker thread has ended
StartAgainWhenDead ==
    /\ pc = "idle"
    /\ link.calls < MaxStarts
    /\ link' = IF link.started /\ link.state # "dead"
               THEN [link EXCEPT !.calls = @ + 1]
               ELSE [link EXCEPT !.calls = @ + 1, !.started = TRUE, !.clients = @ + 1,
                                 !.threads = @ + 1, !.state = "connecting"]
    /\ UNCHANGED <<devices, commLogs, alarmLogs, published, pc, cur, pending, delivered,
                   adminVars, authVars>>

\* start_mqtt_service (16-55), called from the main thread: the flag test, and on
\* the first call the flag, the client and the worker thread
StartMqttService ==
    /\ pc = "idle"
    /\ link.calls < MaxStarts
    /\ link' = IF link.started
               THEN [link EXCEPT !.calls = @ + 1]
               ELSE [link EXCEPT !.calls = @ + 1, !.started = TRUE, !.clients = @ + 1,
                                 !.threads = @ + 1, !.state = "connecting"]
    /\ UNCHANGED <<devices, commLogs, alarmLogs, published, pc, cur, pending, delivered,
                   adminVars, authVars>>

\* connect_mqtt (41-50) on the worker thread: connect raises and the thread ends,
\* or the connection is made and loop_forever handles the CONNACK (on_connect
\* on rc 0, a retry otherwise)
ConnectMqtt(ok, rc) ==
    /\ link.state = "connecting"
    /\ link' = IF ~ok THEN [link EXCEPT !.state = "dead"]
               ELSE IF rc = 0
               THEN [link EXCEPT !.state = "connected", !.subs = OnConnect(rc, link.conns),
                                 !.conns = @ + 1, !.attempts = @ + 1]
               ELSE [link EXCEPT !.state = "down", !.attempts = @ + 1]
    /\ UNCHANGED <<devices, commLogs, alarmLogs, published, pc, cur, pending, delivered,
                   adminVars, authVars>>

\* the process from its start: nothing started yet
InitStart ==
    BootAt(FaultTables, [msgs |-> StartMsgs, admin |-> 0, conns |-> MaxConnects,
                         drops |-> MaxDropped], {1}, LinkOff)
NextStart ==
    \/ StartMqttService
    \/ \E ok \in BOOLEAN, rc \in ConnReturnCodes : ConnectMqtt(ok, rc)
    \/ ConnLost
    \/ \E rc \in ConnReturnCodes : Reconnect(rc)
    \/ \E m \in DeviceSends : Deliver(m)
    \/ \E m \in DeviceSends : Discard(m)
    \/ HandlerSteps
SpecStart == InitStart /\ [][NextStart]_vars

----------------------------------------------------------------------------
(* The static forwarder, Data_Forwarding.py: a program of its own, with a fixed
   binding map and no database.  Its publishes are recorded in published. *)

HOST_PUB_PREFIX == <<"/", "AIR8000", "/", "PUB", "/">>
HOST_SUB_PREFIX == <<"/", "AIR8000", "/", "SUB", "/">>
SLAVE_PUB_PREFIX == <<"/", "780EHV", "/", "PUB", "/">>
SLAVE_SUB_PREFIX == <<"/", "780EHV", "/", "SUB", "/">>

HOST_IMEI == <<"864793080106318">>
SLAVE_IMEI == <<"866965083776697">>

\* sender IMEI -> list of receiver IMEIs
BINDING_MAP == (HOST_IMEI :> <<SLAVE_IMEI>>) @@ (SLAVE_IMEI :> <<HOST_IMEI>>)

\* the places where p occurs in s
Occurrences(s, p) ==
    {k \in 1..(Len(s) - Len(p) + 1) : SubSeq(s, k, k + Len(p) - 1) = p}

\* topic.split(prefix)[1] for a topic that starts with prefix: what lies between
\* the prefix and its next occurrence, or the end of the topic
SplitSecond(topic, prefix) ==
    LET rest == SubSeq(topic, Len(prefix) + 1, Len(topic))
        occ == Occurrences(rest, prefix)
    IN  IF occ = {} THEN rest
        ELSE SubSeq(rest, 1, (CHOOSE k \in occ : \A j \in occ : k <= j) - 1)

\* on_message (37-68): the publish calls it makes for one inbound message
ForwarderPublishes(topic, payload) ==
    IF ~Utf8Decodes(payload) THEN <<>>
    ELSE IF ~StartsWith(topic, HOST_PUB_PREFIX) /\ ~StartsWith(topic, SLAVE_PUB_PREFIX)
    THEN <<>>
    ELSE LET host == StartsWith(topic, HOST_PUB_PREFIX)
             sender_imei == SplitSecond(topic, IF host THEN HOST_PUB_PREFIX
                                               ELSE SLAVE_PUB_PREFIX)
             target_sub_prefix == IF host THEN SLAVE_SUB_PREFIX ELSE HOST_SUB_PREFIX
         IN  IF sender_imei \in DOMAIN BINDING_MAP
             THEN [i \in 1..Len(BINDING_MAP[sender_imei]) |->
                      Publish(target_sub_prefix \o BINDING_MAP[sender_imei][i], payload)]
             ELSE <<>>

\* the forwarder's on_message callback for one delivered message
ForwarderOnMessage(topic, payload) ==
    /\ delivered < limits.msgs
    /\ delivered' = delivered + 1
    /\ published' = published \o ForwarderPublishes(topic, payload)
    /\ cur' = [NoCur EXCEPT !.topic = topic, !.payload = payload,
                            !.p0 = Len(published), !.after = cur.result,
                            !.result = IF Utf8Decodes(payload) THEN "forwarded"
                                       ELSE "undecoded"]
    /\ UNCHANGED <<devices, commLogs, alarmLogs, pc, pending, adminVars, authVars, connVars>>

\* what a client may publish to the broker the forwarder listens on
ForwarderSenders == {HOST_IMEI, SLAVE_IMEI, ImeiSeq[1], <<>>}
ForwarderInbound ==
    ({pre \o i : pre \in {HOST_PUB_PREFIX, SLAVE_PUB_PREFIX, HOST_SUB_PREFIX,
                           <<"/", "OTHER", "/">>},
                 i \in ForwarderSenders})
    \X {P_BJ1, P_GARBAGE, P_BADUTF8}

InitForward == Boot({{}}, [msgs |-> ForwardMsgs, admin |-> 0])
NextForward == \E m \in ForwarderInbound : ForwarderOnMessage(m[1], m[2])
SpecForward == InitForward /\ [][NextForward]_vars

----------------------------------------------------------------------------
(* Login and the user and station endpoints (backend/app/api/auth.py, users.py,
   stations.py).  Each endpoint that checks and then writes is two steps: its
   reads, and the commit of what it changed. *)

\* `not v` for a JSON scalar
PyFalsy(v) ==
    \/ v.t = "none"
    \/ v.t = "str" /\ v.s = ""
    \/ v.t = "int" /\ v.n = 0

\* the credentials a client may post: known and unknown names, right, wrong,
\* empty and non-text passwords
LoginNames == {JStr("admin"), JStr("user"), JStr("former"), JStr("ghost"), JNone}
LoginPasswords ==
    {JStr("admin123"), JStr("user123"), JStr("former123"), JStr("wrong"), JStr(""),
     JInt(12345, "12345")}

\* login 15-43; check_password calls password.encode, which a number does not have
Login(t, username, password) ==
    /\ StartReq(t)
    /\ call' = [call EXCEPT ![t] = [uid |-> 0, username |-> username, password |-> password]]
    /\ IF PyFalsy(username) \/ PyFalsy(password)
       THEN Respond(t, 400) /\ UNCHANGED tokens
       ELSE LET found == {u \in users : u.username = username.s}
            IN  IF found = {}
                THEN Respond(t, 401) /\ UNCHANGED tokens
                ELSE \E u \in found :
                     IF password.t # "str"
                     THEN Respond(t, 500) /\ UNCHANGED tokens
                     ELSE IF ~CheckPassword(u, password.s)
                     THEN Respond(t, 401) /\ UNCHANGED tokens
                     ELSE IF u.status # 1
                     THEN Respond(t, 403) /\ UNCHANGED tokens
                     ELSE /\ tokens' = tokens \cup {u.id}
                          /\ Respond(t, 200)
    /\ UNCHANGED <<devices, stations, relayVars, users, autoinc, connVars>>

\* the user ids and request bodies an administrator's client may send
ReqUsers == 1..(Cardinality(InitUsers) + 1)
UserBodies ==
    {[NoPatch EXCEPT !.username = u, !.password = "pw", !.role = r] :
        u \in {"user", "new"}, r \in {NullStr, "admin", "root"}}
    \cup {[NoPatch EXCEPT !.username = "new"]}
UserPatches ==
    {NoPatch, [NoPatch EXCEPT !.password = "pw2"], [NoPatch EXCEPT !.status = 0]}
    \cup {[NoPatch EXCEPT !.role = r] : r \in {"admin", "user", "root"}}
    \cup {[NoPatch EXCEPT !.username = u] : u \in {"admin", "new"}}

\* get_users 30-39
GetUsers(t) ==
    /\ StartReq(t)
    /\ Respond(t, 200)
    /\ UNCHANGED <<devices, stations, relayVars, acctVars, connVars>>

\* create_user 49-65
CreateUserCheck(t, d) ==
    /\ StartReq(t)
    /\ IF d.username \in {NullStr, ""} \/ d.password \in {NullStr, ""}
       THEN Respond(t, 400)
       ELSE IF d.role # NullStr /\ d.role \notin {"admin", "user"}
       THEN Respond(t, 400)
       ELSE IF \E u \in users : u.username = d.username
       THEN Respond(t, 409)
       ELSE areq' = [areq EXCEPT ![t] = [IdleReq EXCEPT !.op = "create_user", !.data = d]]
    /\ UNCHANGED <<devices, stations, relayVars, acctVars, connVars>>

\* create_user 67-71: the insert; the UNIQUE constraint on username may refuse it
CreateUserCommit(t) ==
    /\ areq[t].op = "create_user"
    /\ LET d == areq[t].data
       IN  IF \E u \in users : u.username = d.username
           THEN Respond(t, 500) /\ UNCHANGED <<users, autoinc>>
           ELSE /\ users' = users \cup
                      {UserRow(autoinc.users + 1, d.username, d.password,
                               IF d.role = NullStr THEN "user" ELSE d.role, 1)}
                /\ autoinc' = [autoinc EXCEPT !.users = @ + 1]
                /\ Respond(t, 200)
    /\ UNCHANGED <<devices, stations, adminOps, relayVars, tokens, call, connVars>>

\* the attributes of a loaded user that a request body changes (what the UPDATE
\* will write); set_password salts anew, so a password is always a change
DirtyUser(user, d) ==
    [NoPatch EXCEPT
       !.username = IF d.username # user.username THEN d.username ELSE NullStr,
       !.password = IF d.password # "" THEN d.password ELSE NullStr,
       !.role = IF d.role # user.role THEN d.role ELSE NullStr,
       !.status = IF d.status # -1 /\ (IF d.status # 0 THEN 1 ELSE 0) # user.status
                  THEN (IF d.status # 0 THEN 1 ELSE 0) ELSE -1]

\* update_user 87-113
UpdateUserCheck(t, user_id, d) ==
    /\ StartReq(t)
    /\ IF ~\E u \in users : u.id = user_id
       THEN Respond(t, 404)
       ELSE IF d = NoPatch
       THEN Respond(t, 400)
       ELSE \E user \in {u \in users : u.id = user_id} :
            IF d.username # NullStr /\ d.username # user.username
               /\ \E u \in users : u.username = d.username
            THEN Respond(t, 409)
            ELSE IF d.role # NullStr /\ d.role \notin {"admin", "user"}
            THEN Respond(t, 400)
            ELSE areq' = [areq EXCEPT ![t] = [IdleReq EXCEPT !.op = "update_user",
                                                            !.sid = user_id,
                                                            !.data = DirtyUser(user, d)]]
    /\ UNCHANGED <<devices, stations, relayVars, acctVars, connVars>>

\* update_user 115-121: the UPDATE of the changed columns, then user.to_dict();
\* a row deleted meanwhile or a taken username fail the request
UpdateUserCommit(t) ==
    /\ areq[t].op = "update_user"
    /\ LET d == areq[t].data
           id == areq[t].sid
       IN  IF \/ ~\E u \in users : u.id = id
              \/ d.username # NullStr /\ \E u \in users : u.id # id /\ u.username = d.username
           THEN Respond(t, 500) /\ UNCHANGED users
           ELSE /\ users' =
                     {IF u.id # id THEN u
                      ELSE [u EXCEPT
                              !.username = IF d.username # NullStr THEN d.username ELSE @,
                              !.password_hash = IF d.password # NullStr
                                                THEN PasswordHash(d.password) ELSE @,
                              !.role = IF d.role # NullStr THEN d.role ELSE @,
                              !.status = IF d.status # -1 THEN d.status ELSE @] : u \in users}
                /\ Respond(t, 200)
    /\ UNCHANGED <<devices, stations, adminOps, relayVars, tokens, autoinc, call, connVars>>

\* delete_user 131-138; me: get_jwt_identity()
DeleteUserCheck(t, me, user_id) ==
    /\ StartReq(t)
    /\ IF ~\E u \in users : u.id = user_id
       THEN Respond(t, 404)
       ELSE IF user_id = me
       THEN Respond(t, 400)
       ELSE areq' = [areq EXCEPT ![t] = [IdleReq EXCEPT !.op = "delete_user",
                                                       !.sid = user_id]]
    /\ UNCHANGED <<devices, stations, relayVars, acctVars, connVars>>

\* delete_user 140-141: a DELETE that matches no row is only a warning; the
\* tokens issued for the account stay valid until they expire
DeleteUserCommit(t) ==
    /\ areq[t].op = "delete_user"
    /\ users' = {u \in users : u.id # areq[t].sid}
    /\ Respond(t, 200)
    /\ UNCHANGED <<devices, stations, adminOps, relayVars, tokens, autoinc, call, connVars>>

\* the request bodies for stations
NewCode == <<"code", Cardinality(Stations) + 1>>
StationBodies ==
    {[NoPatch EXCEPT !.name = "station", !.code = c] : c \in {NewCode, <<"code", 1>>, <<>>}}
StationPatches ==
    {NoPatch, [NoPatch EXCEPT !.name = "renamed"], [NoPatch EXCEPT !.status = 0],
     [NoPatch EXCEPT !.code = <<"code", 1>>], [NoPatch EXCEPT !.code = NewCode]}

\* create_station 124-136
CreateStationCheck(t, d) ==
    /\ StartReq(t)
    /\ IF d.name \in {NullStr, ""} \/ d.code = <<>>
       THEN Respond(t, 400)
       ELSE IF \E r \in stations : r.code = d.code
       THEN Respond(t, 409)
       ELSE areq' = [areq EXCEPT ![t] = [IdleReq EXCEPT !.op = "create_station", !.data = d]]
    /\ UNCHANGED <<devices, stations, relayVars, acctVars, connVars>>

\* create_station 138-148: the insert; the UNIQUE constraint on code may refuse it
CreateStationCommit(t) ==
    /\ areq[t].op = "create_station"
    /\ LET d == areq[t].data
       IN  IF \E r \in stations : r.code = d.code
           THEN Respond(t, 500) /\ UNCHANGED <<stations, autoinc>>
           ELSE /\ stations' = stations \cup
                      {StationRow(autoinc.stations + 1, d.name, d.code, 1)}
                /\ autoinc' = [autoinc EXCEPT !.stations = @ + 1]
                /\ Respond(t, 200)
    /\ UNCHANGED <<devices, adminOps, relayVars, users, tokens, call, connVars>>

\* the attributes of a loaded station that a request body changes
DirtyStation(station, d) ==
    [NoPatch EXCEPT
       !.name = IF d.name # station.name THEN d.name ELSE NullStr,
       !.code = IF d.code # station.code THEN d.code ELSE <<>>,
       !.status = IF d.status # -1 /\ (IF d.status # 0 THEN 1 ELSE 0) # station.status
                  THEN (IF d.status # 0 THEN 1 ELSE 0) ELSE -1]

\* update_station 164-187
UpdateStationCheck(t, sid, d) ==
    /\ StartReq(t)
    /\ IF sid \notin StationIds(stations)
       THEN Respond(t, 404)
       ELSE IF d = NoPatch
       THEN Respond(t, 400)
       ELSE \E station \in {r \in stations : r.id = sid} :
            IF d.code # <<>> /\ d.code # station.code /\ \E r \in stations : r.code = d.code
            THEN Respond(t, 409)
            ELSE areq' = [areq EXCEPT ![t] = [IdleReq EXCEPT !.op = "update_station",
                                                            !.sid = sid,
                                                            !.data = DirtyStation(station, d)]]
    /\ UNCHANGED <<devices, stations, relayVars, acctVars, connVars>>

\* update_station 189-195
UpdateStationCommit(t) ==
    /\ areq[t].op = "update_station"
    /\ LET d == areq[t].data
           id == areq[t].sid
       IN  IF \/ id \notin StationIds(stations)
              \/ d.code # <<>> /\ \E r \in stations : r.id # id /\ r.code = d.code
           THEN Respond(t, 500) /\ UNCHANGED stations
           ELSE /\ stations' =
                     {IF r.id # id THEN r
                      ELSE [r EXCEPT !.name = IF d.name # NullStr THEN d.name ELSE @,
                                     !.code = IF d.code # <<>> THEN d.code ELSE @,
                                     !.status = IF d.status # -1 THEN d.status ELSE @] :
                      r \in stations}
                /\ Respond(t, 200)
    /\ UNCHANGED <<devices, adminOps, relayVars, acctVars, call, connVars>>

\* delete_station 205-212
DeleteStationCheck(t, sid) ==
    /\ StartReq(t)
    /\ IF sid \notin StationIds(stations)
       THEN Respond(t, 404)
       ELSE IF ByStation(devices, sid) # {}
       THEN Respond(t, 409)
       ELSE areq' = [areq EXCEPT ![t] = [IdleReq EXCEPT !.op = "delete_station",
                                                       !.sid = sid]]
    /\ UNCHANGED <<devices, stations, relayVars, acctVars, connVars>>

\* delete_station 214-215: the flush loads Station.devices (models.py 75) in the
\* transaction of the check, whose snapshot holds no device of the station, so it
\* sets no station_id to NULL; it sets to NULL the station_id of the station's
\* alarm rows (backref alarm_logs, models.py 135).  The DELETE is refused by the
\* foreign key of a device bound since the check or of a comm_logs row of the
\* station (models.py 100, 168), and the IntegrityError is not handled (HTTP 500)
DeleteStationCommit(t) ==
    /\ areq[t].op = "delete_station"
    /\ IF /\ ByStation(devices, areq[t].sid) = {}
          /\ \A i \in 1..Len(commLogs) : commLogs[i].station_id # areq[t].sid
       THEN /\ stations' = {r \in stations : r.id # areq[t].sid}
            /\ alarmLogs' = [i \in 1..Len(alarmLogs) |->
                                IF alarmLogs[i].station_id = areq[t].sid
                                THEN [alarmLogs[i] EXCEPT !.station_id = NullId]
                                ELSE alarmLogs[i]]
            /\ Respond(t, 200)
       ELSE /\ UNCHANGED <<stations, alarmLogs>>
            /\ Respond(t, 500)
    /\ UNCHANGED <<devices, adminOps, commLogs, published, pc, cur, pending, delivered,
                   limits, acctVars, call, connVars>>

\* a client holding the token of account uid calls an admin-protected endpoint
ProtectedCall(t, uid) ==
    \/ AdminRequired(t, uid, GetUsers(t))
    \/ \E d \in UserBodies : AdminRequired(t, uid, CreateUserCheck(t, d))
    \/ \E id \in ReqUsers, d \in UserPatches : AdminRequired(t, uid, UpdateUserCheck(t, id, d))
    \/ \E id \in ReqUsers : AdminRequired(t, uid, DeleteUserCheck(t, uid, id))
    \/ \E d \in StationBodies : AdminRequired(t, uid, CreateStationCheck(t, d))
    \/ \E sid \in ReqStations, d \in StationPatches :
          AdminRequired(t, uid, UpdateStationCheck(t, sid, d))
    \/ \E sid \in ReqStations : AdminRequired(t, uid, DeleteStationCheck(t, sid))

AuthNext ==
    \/ \E t \in AdminThreads, u \in LoginNames, p \in LoginPasswords : Login(t, u, p)
    \/ \E t \in AdminThreads, uid \in tokens : ProtectedCall(t, uid)
    \/ \E t \in AdminThreads : CreateUserCommit(t)
    \/ \E t \in AdminThreads : UpdateUserCommit(t)
    \/ \E t \in AdminThreads : DeleteUserCommit(t)
    \/ \E t \in AdminThreads : CreateStationCommit(t)
    \/ \E t \in AdminThreads : UpdateStationCommit(t)
    \/ \E t \in AdminThreads : DeleteStationCommit(t)

\* the REST API alone: the administrator and the account disabled since hold
\* tokens, the first station has its devices, the second has none
InitAuth == BootWith(FaultTables, [msgs |-> 0, admin |-> AuthOps], {1, 3})
NextAuth == AuthNext \/ AdminNext
SpecAuth == InitAuth /\ [][NextAuth]_vars

\* station deletes interleaved with the device endpoints: the devices start
\* unbound, so a bind can commit between the check and the commit of a delete
DeleteNext ==
    \/ \E t \in AdminThreads, uid \in tokens, sid \in ReqStations :
          AdminRequired(t, uid, DeleteStationCheck(t, sid))
    \/ \E t \in AdminThreads : DeleteStationCommit(t)
InitDelete == Boot(UnboundTables, [msgs |-> 0, admin |-> DeleteAdminOps])
NextDelete == AdminNext \/ DeleteNext
SpecDelete == InitDelete /\ [][NextDelete]_vars

----------------------------------------------------------------------------
(* What the message being processed has produced so far.  The relay worker is
   the only writer of the audit tables and the only publisher, so the rows and
   publishes of the current message are those after the lengths noted at its
   arrival. *)

Done == pc = "idle" /\ cur.result # "none"

MsgComm == SubSeq(commLogs, cur.c0 + 1, Len(commLogs))
MsgAlarms == SubSeq(alarmLogs, cur.a0 + 1, Len(alarmLogs))
MsgPubs == SubSeq(published, cur.p0 + 1, Len(published))

IsReceive(r) == r.direction = "receive"
IsForward(r) == r.direction = "forward"
MsgReceives == SelectSeq(MsgComm, IsReceive)
MsgForwards == SelectSeq(MsgComm, IsForward)

\* the station the source IMEI is bound to in a devices table (NullId: none, or no row)
StationIn(tbl) ==
    IF \E d \in tbl : d.imei = cur.imei
    THEN (CHOOSE d \in tbl : d.imei = cur.imei).station_id
    ELSE NullId

\* the IMEIs of the devices of a class bound to a station in a devices table
BoundTo(tbl, sid, type) == {d.imei : d \in {e \in tbl : e.station_id = sid /\ e.type = type}}

\* the bindings of a devices table
Bindings(tbl) == {<<d.imei, d.type, d.station_id>> : d \in tbl}

\* the handler read the binding for routing (snap) and no binding changed since it
\* read the device for the receive row (rsnap)
Routed == cur.snap # {}
Stable == cur.rsnap # {} /\ (Routed => Bindings(cur.snap) = Bindings(cur.rsnap))

Range(q) == {q[i] : i \in 1..Len(q)}

\* the first tokens of s are those of p
HasPrefix(s, p) == Len(s) >= Len(p) /\ \A i \in 1..Len(p) : s[i] = p[i]

----------------------------------------------------------------------------
(* C1: station isolation.  Every publish made and every forward row written or
   pending for the message being processed targets a device that, in the
   devices table the handler read when routing, is bound to the same non-null
   station as the source device; the forward row carries that station id. *)
C1_StationIsolation ==
    LET S == StationIn(cur.snap)
    IN  /\ \A i \in 1..Len(MsgPubs) :
              /\ S # NullId
              /\ \E d \in cur.snap :
                    /\ d.station_id = S
                    /\ MsgPubs[i].topic \in {INDOOR_SUB_PREFIX \o d.imei,
                                             OUTDOOR_SUB_PREFIX \o d.imei}
        /\ \A r \in Range(MsgForwards) \cup Range(pending) :
              /\ S # NullId
              /\ r.station_id = S
              /\ \E d \in cur.snap : d.station_id = S /\ d.imei = r.target_imei

\* a message was forwarded while a device of the target class was bound to another
\* station, and another was unbound or the source's station had a second target
C1_Witness ==
    /\ Done /\ Len(MsgPubs) >= 1 /\ Len(MsgForwards) = Len(MsgPubs)
    /\ \E d \in cur.snap :
          /\ d.station_id \notin {NullId, StationIn(cur.snap)}
          /\ d.type = MsgForwards[1].target_type
    /\ adminOps = 1

(* C2 as claimed: an inbound message from an indoor device bound to station S,
   with N >= 1 outdoor devices bound to S, produces exactly N publishes, one per
   outdoor device of S on its outdoor-subscribe topic, exactly N forward rows
   and exactly one receive row. *)
C2_IndoorFanOut ==
    LET S == StationIn(cur.rsnap)
        T == BoundTo(cur.rsnap, S, "outdoor")
    IN  (Done /\ cur.kind = "indoor" /\ Stable /\ S # NullId /\ T # {})
        => /\ Len(MsgPubs) = Cardinality(T)
           /\ {MsgPubs[i].topic : i \in 1..Len(MsgPubs)} = {OUTDOOR_SUB_PREFIX \o t : t \in T}
           /\ Len(MsgForwards) = Cardinality(T)
           /\ Len(MsgReceives) = 1

(* C3: outdoor-to-indoor routing.  A message on the outdoor prefix produces at
   most one publish, addressed to the indoor-subscribe topic of an indoor device
   bound to the source's station; when the routing read found no indoor device
   bound to that station there is no publish and no forward row. *)
C3_OutdoorToIndoor ==
    LET S == StationIn(cur.snap)
    IN  cur.kind = "outdoor"
        => /\ Len(MsgPubs) <= 1
           /\ \A i \in 1..Len(MsgPubs) :
                 /\ S # NullId
                 /\ \E t \in BoundTo(cur.snap, S, "indoor") :
                       MsgPubs[i].topic = INDOOR_SUB_PREFIX \o t
           /\ (Routed /\ BoundTo(cur.snap, S, "indoor") = {})
                 => (MsgPubs = <<>> /\ MsgForwards = <<>> /\ pending = <<>>)
           /\ (Done /\ Routed /\ S # NullId /\ BoundTo(cur.snap, S, "indoor") # {})
                 => (Len(MsgPubs) = 1 /\ Len(MsgForwards) = 1)

\* an outdoor message was forwarded to the indoor device of its station
C3_Witness ==
    /\ Done /\ cur.kind = "outdoor" /\ Len(MsgPubs) = 1 /\ Len(MsgForwards) = 1
    /\ MsgForwards[1].target_imei # cur.imei
    /\ MsgForwards[1].target_imei \in BoundTo(cur.snap, StationIn(cur.snap), "indoor")

(* C4: unbound source.  A processed message, indoor or outdoor, whose source
   device had a null station binding whenever the handler read it produces no
   publish, no forward row, no alarm row, and exactly one receive row, whose
   station id is null. *)
C4_UnboundSource ==
    (/\ Done /\ cur.kind # "none" /\ cur.rsnap # {}
     /\ StationIn(cur.rsnap) = NullId
     /\ Routed => StationIn(cur.snap) = NullId)
    => /\ MsgPubs = <<>>
       /\ MsgForwards = <<>>
       /\ MsgAlarms = <<>>
       /\ Len(MsgReceives) = 1
       /\ MsgReceives[1].station_id = NullId

\* an unbound device sent a parseable message while devices of the other class
\* were bound to stations
C4_Witness ==
    /\ Done /\ Routed /\ cur.rsnap # {}
    /\ StationIn(cur.rsnap) = NullId /\ StationIn(cur.snap) = NullId
    /\ Len(MsgReceives) = 1
    /\ \E d \in cur.snap : d.station_id # NullId /\ d.type # cur.kind
    /\ \E d \in cur.snap : d.station_id = NullId /\ d.type # cur.kind

(* C5 as claimed: a message from a bound device, indoor or outdoor, whose
   payload is not parseable and whose station has at least one target is still
   published to every target, with the forward rows written and no alarm row. *)
C5_MalformedStillRelayed ==
    LET S == StationIn(cur.rsnap)
        T == BoundTo(cur.rsnap, S, IF cur.kind = "indoor" THEN "outdoor" ELSE "indoor")
    IN  (/\ Done /\ cur.kind # "none" /\ Stable /\ S # NullId /\ T # {}
         /\ ~JsonLoads(cur.payload).ok)
        => /\ Len(MsgPubs) >= 1
           /\ \A i \in 1..Len(MsgPubs) : MsgPubs[i].payload = cur.payload
           /\ cur.kind = "indoor" => {MsgPubs[i].topic : i \in 1..Len(MsgPubs)}
                                        = {OUTDOOR_SUB_PREFIX \o t : t \in T}
           /\ Len(MsgForwards) = Len(MsgPubs)
           /\ MsgAlarms = <<>>

(* C6: an unrecognized topic is a no-op.  Delivering a message whose topic starts
   with neither publish prefix leaves the devices table, both audit tables and
   the publishes unchanged, and the relay idle. *)
C6_UnrecognizedNoOp ==
    [][(/\ delivered' = delivered + 1
        /\ ~HasPrefix(cur'.topic, INDOOR_PUB_PREFIX)
        /\ ~HasPrefix(cur'.topic, OUTDOOR_PUB_PREFIX))
       => (/\ devices' = devices /\ commLogs' = commLogs /\ alarmLogs' = alarmLogs
           /\ published' = published /\ pending' = pending /\ pc' = "idle")]_vars

\* a message on the indoor subscribe prefix was delivered while its IMEI was
\* that of a registered, bound device
C6_Witness ==
    /\ delivered = 1 /\ pc = "idle"
    /\ cur.topic = INDOOR_SUB_PREFIX \o ImeiSeq[1]
    /\ \E d \in devices : d.imei = ImeiSeq[1] /\ d.station_id # NullId
    /\ commLogs = <<>> /\ published = <<>>

(* C7: verbatim relay.  The payload of every publish and of every receive and
   forward row, written or pending, of the message being processed is the
   inbound payload. *)
C7_VerbatimRelay ==
    /\ \A i \in 1..Len(MsgPubs) : MsgPubs[i].payload = cur.payload
    /\ \A r \in Range(MsgComm) \cup Range(pending) : r.payload = cur.payload

\* a string-typed alarm payload was received, published and logged
C7_Witness ==
    /\ Done /\ cur.payload = P_BJS1
    /\ Len(MsgPubs) = 2 /\ Len(MsgForwards) = 2 /\ Len(MsgReceives) = 1

(* C8: alarm detection.  A processed indoor message with payload {"bj": 1} or
   {"bj": 0} from a bound device with at least one outdoor target has exactly
   one alarm row: type 'alarm' for 1 and 'cancel' for 0, the indoor IMEI, and
   outdoor_imeis the targets of the message's forward rows, in order. *)
C8_AlarmDetection ==
    (/\ Done /\ cur.kind = "indoor" /\ cur.payload \in {P_BJ1, P_BJ0}
     /\ Routed /\ StationIn(cur.snap) # NullId
     /\ BoundTo(cur.snap, StationIn(cur.snap), "outdoor") # {})
    => /\ Len(MsgAlarms) = 1
       /\ MsgAlarms[1].alarm_type = (IF cur.payload = P_BJ1 THEN "alarm" ELSE "cancel")
       /\ MsgAlarms[1].indoor_imei = cur.imei
       /\ Len(MsgForwards) >= 1
       /\ MsgAlarms[1].outdoor_imeis =
             [json |-> "array",
              items |-> [i \in 1..Len(MsgForwards) |-> MsgForwards[i].target_imei]]
       /\ Range(MsgAlarms[1].outdoor_imeis.items)
             = BoundTo(cur.snap, StationIn(cur.snap), "outdoor")

\* a cancel was recorded for a fan-out to two outdoor devices
C8_Witness ==
    /\ Done /\ cur.payload = P_BJ0 /\ Len(MsgAlarms) = 1
    /\ MsgAlarms[1].alarm_type = "cancel"
    /\ Len(MsgAlarms[1].outdoor_imeis.items) = 2

(* C9: type-coercion invariance.  What a processed indoor message produces is
   the same function of what the handler read for {"bj": "1"} as for {"bj": 1}:
   one receive row, one publish and one forward row per outdoor device bound to
   the source's station at the routing read, and, when there is such a device,
   one alarm row of type 'alarm' listing the forward targets; nothing but the
   payload text differs. *)
C9_TypeCoercion ==
    \A p \in {P_BJ1, P_BJS1} :
       (Done /\ cur.kind = "indoor" /\ cur.payload = p /\ cur.rsnap # {})
       => LET S == StationIn(cur.snap)
              T == IF S = NullId THEN {} ELSE BoundTo(cur.snap, S, "outdoor")
          IN  /\ Len(MsgReceives) = 1
              /\ Len(MsgPubs) = Cardinality(T)
              /\ {MsgPubs[i].topic : i \in 1..Len(MsgPubs)} = {OUTDOOR_SUB_PREFIX \o t : t \in T}
              /\ [i \in 1..Len(MsgForwards) |-> MsgForwards[i].topic]
                    = [i \in 1..Len(MsgPubs) |-> MsgPubs[i].topic]
              /\ Len(MsgAlarms) = (IF T = {} THEN 0 ELSE 1)
              /\ \A i \in 1..Len(MsgAlarms) :
                    /\ MsgAlarms[i].alarm_type = "alarm"
                    /\ MsgAlarms[i].indoor_imei = cur.imei
                    /\ MsgAlarms[i].outdoor_imeis.items
                          = [j \in 1..Len(MsgForwards) |-> MsgForwards[j].target_imei]

\* the string-typed alarm produced an alarm row of type 'alarm'
C9_Witness ==
    /\ Done /\ cur.payload = P_BJS1 /\ Len(MsgAlarms) = 1
    /\ MsgAlarms[1].alarm_type = "alarm" /\ Len(MsgForwards) >= 1

(* C10: first contact registers exactly once.  No IMEI ever has two device rows;
   when the relay's insert or an administrative create ends, the IMEI has
   exactly one row; and a row inserted by the relay has the class of the topic
   prefix, a null station binding and a non-null last-seen. *)
C10_RegistersOnce ==
    /\ [](\A i \in IMEIs : Cardinality({d \in devices : d.imei = i}) <= 1)
    /\ [][/\ (pc = "insert" /\ pc' # "insert")
               => Cardinality({d \in devices' : d.imei = cur.imei}) = 1
          /\ \A t \in AdminThreads :
               (areq[t].op = "create" /\ areq'[t].op # "create")
               => Cardinality({d \in devices' : d.imei = areq[t].imei}) = 1
          /\ (pc = "insert" /\ pc' = "touch")
               => \E d \in devices' \ devices :
                     /\ devices' = devices \cup {d}
                     /\ d.imei = cur.imei
                     /\ d.type = (IF HasPrefix(cur.topic, INDOOR_PUB_PREFIX)
                                  THEN "indoor" ELSE "outdoor")
                     /\ d.station_id = NullId
                     /\ d.last_seen # 0]_vars

\* the relay's insert lost the race against an administrative create of the same IMEI
C10_Witness ==
    /\ Done /\ cur.result = "error" /\ cur.devId = 0
    /\ \E t \in AdminThreads : areq[t].code = 200
    /\ \E d \in devices : d.imei = cur.imei /\ d.name = "manual"

(* C11 as claimed: at most one indoor device per station.  In every reachable
   state, under any interleaving of bind, unbind, create and auto-registration,
   no station has more than one indoor device bound to it. *)
C11_OneIndoorPerStation ==
    \A sid \in StationIds(stations) :
       Cardinality({d \in devices : d.station_id = sid /\ d.type = "indoor"}) <= 1

(* C12 as claimed: one audit row per physical publish.  Every message delivered
   on a recognized topic has its receive row when the relay is done with it, and
   as many forward rows as publishes were made for it, also when a decode, a
   registration, a publish or a later step failed; so over any sequence of
   messages the receive rows number the deliveries and the forward rows the
   publishes. *)
C12_AuditRowPerPublish ==
    (Done /\ cur.kind # "none")
    => /\ Len(MsgReceives) = 1
       /\ Len(MsgForwards) = Len(MsgPubs)

\* what the handlers make of a message, as a function of what they read
Failed(result) == result \in {"error", "undecoded"}
ExpectedTargets ==
    LET S == StationIn(cur.snap)
    IN  IF ~Routed \/ S = NullId THEN {}
        ELSE BoundTo(cur.snap, S, IF cur.kind = "indoor" THEN "outdoor" ELSE "indoor")

(* C17: no failure is fatal.  Whatever step of a message fails, the relay is idle
   again with nothing left in its session, and a message processed afterwards
   without a failure of its own has the results its own reads determine: one
   receive row, a publish and a forward row for each target (the one target, for
   an outdoor message), and an alarm row exactly when it carries a usable 'bj'
   and was forwarded. *)
C17_NoFailureIsFatal ==
    /\ Failed(cur.result) => (pc = "idle" /\ pending = <<>>)
    /\ (Done /\ cur.kind # "none" /\ ~Failed(cur.result))
       => /\ Len(MsgReceives) = 1
          /\ MsgReceives[1].payload = cur.payload
          /\ [i \in 1..Len(MsgForwards) |-> MsgForwards[i].topic]
                = [i \in 1..Len(MsgPubs) |-> MsgPubs[i].topic]
          /\ {MsgForwards[i].target_imei : i \in 1..Len(MsgForwards)} \subseteq ExpectedTargets
          /\ IF cur.kind = "indoor"
             THEN {MsgForwards[i].target_imei : i \in 1..Len(MsgForwards)} = ExpectedTargets
             ELSE Len(MsgForwards) = (IF ExpectedTargets = {} THEN 0 ELSE 1)
          /\ Len(MsgAlarms) = (IF cur.result = "alarmed" THEN 1 ELSE 0)
          /\ cur.result = "alarmed"
                <=> (cur.kind = "indoor" /\ ExpectedTargets # {}
                     /\ cur.payload \in {P_BJ1, P_BJ0, P_BJS1})

\* a message raised an alarm to two outdoor devices right after a message that
\* failed in the middle of its own fan-out
C17_Witness ==
    /\ Done /\ cur.after = "error" /\ cur.result = "alarmed"
    /\ Len(MsgPubs) = 2 /\ Len(MsgForwards) = 2
    /\ Len(published) = 3 /\ Len(SelectSeq(commLogs, IsForward)) = 2

(* C13 as amended. When the relay handles an outdoor message whose payload is a
   JSON object with a numeric 'vbat' (here 3.1, which the voltage column can
   hold), the step that commits last_seen stores that number as the source
   device's voltage, and changes nothing else: the source row keeps its id,
   IMEI, class, name and station binding, and every other row is as before. *)
C13_NumericVbatStored ==
    [][(pc = "touch" /\ cur.kind = "outdoor" /\ cur.payload = P_VBAT /\ pc' # "touch")
       => /\ pc' = "recv"
          /\ \E d \in devices : \E e \in devices' :
                /\ d.id = cur.devId /\ e.vbat = "3.1"
                /\ e = [d EXCEPT !.vbat = "3.1", !.last_seen = e.last_seen]
                /\ devices' \ {e} = devices \ {d}]_vars

\* C13: a bound outdoor device, seen before with no voltage, now has 3.1 stored
C13_Witness ==
    /\ pc = "recv" /\ cur.kind = "outdoor" /\ cur.payload = P_VBAT
    /\ \E d \in devices :
          d.id = cur.devId /\ d.vbat = "3.1" /\ d.station_id # NullId /\ d.name = "manual"
    /\ \E d \in devices : d.id # cur.devId /\ d.vbat = NullStr /\ d.station_id # NullId

(* C13 as stated. Every outdoor message whose payload is a JSON object that
   contains 'vbat', whatever the value, stores that value as the source device's
   voltage and leaves every station binding unchanged. *)
C13_AnyVbatStored ==
    [][(pc = "touch" /\ cur.kind = "outdoor" /\ pc' # "touch"
        /\ cur.payload \in {P_VBAT, P_VBATS})
       => /\ pc' = "recv"
          /\ \E e \in devices' :
                e.id = cur.devId /\ e.vbat = (IF cur.payload = P_VBAT THEN "3.1" ELSE "low")
          /\ Bindings(devices') = Bindings(devices)]_vars

\* a step of the relay worker (the administrative handlers leave these alone)
RelayStep == <<pc, cur, delivered>>' # <<pc, cur, delivered>>

(* C15. When a message arrives on a recognized topic for an IMEI that already
   has a Device row, resolution takes that row (no row is inserted), and no step
   of the relay ever changes the id, IMEI, class, name or station binding of a
   stored row, also when the class of the topic differs from the stored class:
   only last_seen and vbat may differ afterwards. *)
C15_StoredClassAuthoritative ==
    [][RelayStep
       => /\ \A d \in devices : \E e \in devices' :
                e = [d EXCEPT !.last_seen = e.last_seen, !.vbat = e.vbat]
          /\ (pc = "idle" /\ cur'.kind \in Types /\ cur'.result # "undecoded"
               /\ \E d \in devices : d.imei = cur'.imei)
             => /\ pc' = "touch"
                /\ devices' = devices
                /\ \E d \in devices : d.imei = cur'.imei /\ d.id = cur'.devId]_vars

\* C15: a message on the outdoor topic for a device stored as indoor has been
\* resolved and its last_seen committed; the row is still the administrator's
C15_Witness ==
    /\ pc = "recv" /\ cur.kind = "outdoor"
    /\ \E d \in devices :
          /\ d.id = cur.devId /\ d.imei = cur.imei
          /\ d.type = "indoor" /\ d.name = "manual" /\ d.station_id # NullId
          /\ d.last_seen = delivered

(* C20: the alarm type is total over present values. A processed indoor message
   whose payload is a JSON object containing 'bj', from a bound device with at
   least one outdoor target, has exactly one alarm row: type 'alarm' when the
   value is 1 or the string "1", 'cancel' for any other present value, the
   non-numeric string "x" included. *)
C20_AlarmTypeTotal ==
    (/\ Done /\ cur.kind = "indoor"
     /\ cur.payload \in {P_BJ1, P_BJ0, P_BJS1, P_BJSX}
     /\ Routed /\ StationIn(cur.snap) # NullId
     /\ BoundTo(cur.snap, StationIn(cur.snap), "outdoor") # {})
    => /\ Len(MsgAlarms) = 1
       /\ MsgAlarms[1].alarm_type
             = (IF cur.payload \in {P_BJ1, P_BJS1} THEN "alarm" ELSE "cancel")

\* an IMEI that is one topic segment: no separator in it
SingleSegment(i) == \A k \in 1..Len(i) : i[k] # "/"

(* C14: topic round trip. For each device class and every IMEI that is a single
   topic segment (the empty one included), when the message a device published
   on the class's publish prefix followed by the IMEI reaches on_message, the
   handler selected is the one of that class and the IMEI it is given is that
   IMEI. *)
C14_TopicRoundTrip ==
    [][(delivered' = delivered + 1)
       => \A k \in Types : \A i \in ImeiShapes :
             (SingleSegment(i) /\ cur'.topic = PubPrefix(k) \o i)
                => (cur'.kind = k /\ cur'.imei = i)]_vars

\* C14: a two-token IMEI on the outdoor prefix was parsed and the device
\* registered under it with the outdoor class
C14_Witness ==
    /\ cur.topic = OUTDOOR_PUB_PREFIX \o <<"d3", "d1">>
    /\ cur.kind = "outdoor" /\ cur.imei = <<"d3", "d1">>
    /\ \E d \in devices : d.imei = <<"d3", "d1">> /\ d.type = "outdoor" /\ d.name = "auto"

(* C16: reconnect and resubscribe. Every time the broker accepts a connection
   (return code 0) after a connection loss, the relay's session has both the
   indoor and the outdoor publish wildcard subscribed, so whenever the relay is
   connected both subscriptions are active; a refused connection leaves it
   disconnected. Nothing a device publishes while the relay is disconnected is
   handled: while disconnected, and on the reconnecting step itself, no message
   is delivered and no row or publish is produced. *)
C16_ReconnectResubscribes ==
    [][/\ (link.state # "connected" /\ link'.state = "connected")
          => link'.subs = {INDOOR_PUB_PREFIX, OUTDOOR_PUB_PREFIX}
       /\ (link.state = "connected" /\ link.subs = {INDOOR_PUB_PREFIX, OUTDOOR_PUB_PREFIX}
           /\ link'.state = "connected")
          => link'.subs = link.subs
       /\ (link.state # "connected")
          => UNCHANGED <<devices, commLogs, alarmLogs, published, pc, cur, pending, delivered>>
       /\ (link'.conns # link.conns) => link'.state = "connected"]_vars

\* C16: after a loss during which two device messages were discarded, a refused
\* and then an accepted reconnect, a later message was delivered and forwarded
C16_Witness ==
    /\ link.state = "connected" /\ link.conns = 2 /\ link.attempts = 3
    /\ link.dropped = 2
    /\ link.subs = {INDOOR_PUB_PREFIX, OUTDOOR_PUB_PREFIX}
    /\ delivered = 2 /\ Done /\ cur.result = "alarmed" /\ Len(published) = Len(MsgPubs)

\* the request thread that serves the request a step starts
FirstIdle ==
    ThreadSeq[CHOOSE i \in 1..Len(ThreadSeq) :
                 /\ areq[ThreadSeq[i]].op = "idle"
                 /\ \A j \in 1..(i - 1) : areq[ThreadSeq[j]].op # "idle"]
StartsRequest == adminOps' = adminOps + 1

(* C18: admin-only operations are refused to non-admins. When a request to an
   admin-protected endpoint (user list, create, update, delete; device create,
   bind, unbind; station create, update, delete) carries the token of an account
   that at that moment is not an admin (its role is 'user', or the account was
   deleted), the response is 403 and the users, stations and devices tables and
   the issued tokens are as before. *)
C18_NonAdminRefused ==
    [][(/\ StartsRequest
        /\ call'[FirstIdle].uid \in tokens
        /\ \A u \in users : u.id = call'[FirstIdle].uid => u.role # "admin")
       => /\ areq'[FirstIdle].code = 403
          /\ areq'[FirstIdle].op = "idle"
          /\ users' = users /\ stations' = stations /\ devices' = devices
          /\ tokens' = tokens]_vars

\* C18: the ordinary user logged in and then called a protected endpoint: the
\* answer was 403 and the tables are those of the start
C18_Witness ==
    /\ 2 \in tokens
    /\ \E t \in AdminThreads : call[t].uid = 2 /\ areq[t].code = 403 /\ areq[t].op = "idle"
    /\ \E u \in users : u.id = 2 /\ u.role = "user" /\ u.status = 1
    /\ users = InitUsers /\ stations = InitStations
    /\ adminOps = 2

(* C19: login issues a token only for valid, enabled accounts. A login whose
   username and password are both present answers 401 and issues no token when
   the username names no account or the password is not the account's; it
   answers 403 and issues no token when the password is right and the account
   is not enabled; and a token is issued only for an existing, enabled account
   whose password was given. *)
C19_LoginRefusals ==
    [][(StartsRequest /\ call'[FirstIdle].uid = 0)
       => LET u == call'[FirstIdle].username
              p == call'[FirstIdle].password
              present(v) == ~(v.t = "none" \/ (v.t = "str" /\ v.s = ""))
              acct == {r \in users : u.t = "str" /\ r.username = u.s}
              right == \E r \in acct : p.t = "str" /\ r.password_hash = <<"bcrypt", p.s>>
              enabled == \E r \in acct : r.status = 1
          IN  /\ (present(u) /\ present(p) /\ ~right)
                 => (areq'[FirstIdle].code = 401 /\ tokens' = tokens)
              /\ (present(u) /\ present(p) /\ right /\ ~enabled)
                 => (areq'[FirstIdle].code = 403 /\ tokens' = tokens)
              /\ (tokens' # tokens) => (right /\ enabled)]_vars

(* C21: a registration conflict is retried as a read. A processed indoor message
   with payload {"bj": 1} (which nothing else in the relay can fail) has its
   receive row, and the Device row of its IMEI has the message's last_seen, also
   when the row was committed by an administrative create between the relay's
   lookup and its insert: the conflict is not an error. *)
C21_ConflictRetriedAsRead ==
    (Done /\ cur.kind = "indoor" /\ cur.payload = P_BJ1)
    => /\ cur.result # "error"
       /\ Len(MsgReceives) = 1
       /\ \E d \in devices : d.imei = cur.imei /\ d.last_seen = delivered

(* C22: one binding snapshot per message. Every forward row and the alarm row of
   a processed indoor message carry the station id the relay read when it checked
   the binding and chose the targets, also when an administrative bind or unbind
   of the source device commits while the message is being processed. *)
C22_OneBindingSnapshot ==
    (Done /\ cur.kind = "indoor" /\ Routed /\ cur.station # NullId)
    => /\ \A i \in 1..Len(MsgForwards) : MsgForwards[i].station_id = cur.station
       /\ \A i \in 1..Len(MsgAlarms) : MsgAlarms[i].station_id = cur.station

(* C23: alarm and forward records are atomic. In every state of the audit
   tables, the message being processed or last processed, when it is an indoor
   message whose payload carries 'bj' with the value 1, 0 or "1", has its
   forward rows committed exactly when its alarm row is committed: never the
   forward rows without the alarm row, nor the alarm row without them. *)
C23_AlarmForwardAtomic ==
    (cur.kind = "indoor" /\ cur.payload \in {P_BJ1, P_BJ0, P_BJS1})
    => (Len(MsgForwards) >= 1 <=> Len(MsgAlarms) = 1)

(* C24: a publish failure does not stop the fan-out.  When the publish to one
   outdoor target of an indoor message fails (the handler stopped at target
   number idx of its target list), every target after it in the list still has
   its publish made and its forward row committed. *)
C24_FanOutSurvivesPublishFailure ==
    (Done /\ cur.kind = "indoor" /\ cur.result = "error"
          /\ cur.targets # <<>> /\ cur.idx <= Len(cur.targets))
    => \A i \in (cur.idx + 1)..Len(cur.targets) :
          /\ \E j \in 1..Len(MsgPubs) :
                MsgPubs[j].topic = OUTDOOR_SUB_PREFIX \o cur.targets[i]
          /\ \E j \in 1..Len(MsgForwards) :
                MsgForwards[j].target_imei = cur.targets[i]

(* C25: last-seen is always recorded.  Once the relay has finished with a
   message that arrived on one of the two device topics, the row of the source
   device exists and its last-seen is the arrival of that message, whatever
   became of the message afterwards. *)
C25_LastSeenAlwaysRecorded ==
    (Done /\ TopicClass(cur.topic) \in Types)
    => \E d \in devices : d.imei = LastSegment(cur.topic) /\ d.last_seen = delivered

\* the forward rows of the message in the session, and all of them in the order
\* they were written
PendingForwards == SelectSeq(pending, IsForward)
AllForwards == MsgForwards \o PendingForwards

(* C26: step ordering within a message.  In every state, a publish of the
   message being processed has been made only with the message's receive row
   already committed, and the forward rows of the message, committed or still in
   the session, are no more than its publishes and follow them one for one: the
   i-th forward row carries the topic and payload of the i-th publish. *)
C26_StepOrdering ==
    /\ Len(MsgPubs) > 0 => (Len(MsgReceives) = 1 /\ IsReceive(MsgComm[1]))
    /\ Len(AllForwards) <= Len(MsgPubs)
    /\ \A i \in 1..Len(AllForwards) :
          /\ AllForwards[i].topic = MsgPubs[i].topic
          /\ AllForwards[i].payload = MsgPubs[i].payload

\* in the middle of a fan-out: the receive row is committed, the first target has
\* its publish and its forward row, the second target has neither yet
C26_Witness ==
    /\ pc = "publish" /\ cur.kind = "indoor" /\ Len(cur.targets) = 2 /\ cur.idx = 2
    /\ Len(MsgReceives) = 1 /\ Len(MsgPubs) = 1 /\ Len(PendingForwards) = 1

(* C27: alarm rows come only from routed indoor messages.  In every state the
   message being processed has at most one alarm row, and when it has one, its
   topic starts with the indoor publish prefix, its source was bound to a
   station when the handler routed it, that station had at least one outdoor
   device, and a publish of the message was made.  No message adds more than
   one alarm row to the table. *)
C27_AlarmOnlyFromRoutedIndoor ==
    /\ Len(MsgAlarms) <= 1
    /\ Len(alarmLogs) <= delivered
    /\ Len(MsgAlarms) = 1
       => /\ HasPrefix(cur.topic, INDOOR_PUB_PREFIX)
          /\ Routed
          /\ StationIn(cur.snap) # NullId
          /\ BoundTo(cur.snap, StationIn(cur.snap), "outdoor") # {}
          /\ Len(MsgPubs) >= 1
          /\ MsgAlarms[1].indoor_imei = LastSegment(cur.topic)

\* an indoor message with 'bj' was routed to the outdoor devices of its station
\* and left its one alarm row
C27_Witness ==
    /\ Done /\ cur.result = "alarmed" /\ HasPrefix(cur.topic, INDOOR_PUB_PREFIX)
    /\ Len(MsgAlarms) = 1 /\ Len(MsgPubs) >= 1

\* what the deliveries before the current one left in the tables
FirstComm == SubSeq(commLogs, 1, cur.c0)
FirstPubs == SubSeq(published, 1, cur.p0)
FirstAlarms == SubSeq(alarmLogs, 1, cur.a0)

\* the current delivery is the second, the first one carried the same topic and
\* payload, and neither raised
SameDeliveredTwice ==
    /\ Done /\ delivered = 2
    /\ ~Failed(cur.after) /\ ~Failed(cur.result)
    /\ cur.c0 >= 1 /\ IsReceive(commLogs[1])
    /\ commLogs[1].topic = cur.topic /\ commLogs[1].payload = cur.payload

(* C28: no deduplication.  When the same message (topic and payload) has been
   delivered twice with no binding change in between and neither delivery
   raised, the second delivery left what the first one left: its own receive
   row, the same forward rows and the same publishes, and its own alarm row
   when the first one had one; two receive rows of the message are in the
   table, and two alarm rows when the message qualifies. *)
C28_NoDeduplication ==
    SameDeliveredTwice
    => /\ Len(MsgReceives) = 1
       /\ Len(SelectSeq(commLogs, IsReceive)) = 2
       /\ Len(MsgComm) = Len(FirstComm) /\ Range(MsgComm) = Range(FirstComm)
       /\ Len(MsgPubs) = Len(FirstPubs) /\ Range(MsgPubs) = Range(FirstPubs)
       /\ Len(MsgAlarms) = Len(FirstAlarms)
       /\ (cur.kind = "indoor" /\ ExpectedTargets # {}
             /\ cur.payload \in {P_BJ1, P_BJ0, P_BJS1})
          => Len(alarmLogs) = 2

\* an alarm message to two outdoor devices was delivered twice: four publishes,
\* four forward rows, two receive rows, two alarm rows
C28_Witness ==
    /\ SameDeliveredTwice /\ cur.result = "alarmed" /\ cur.after = "alarmed"
    /\ Len(published) = 4 /\ Len(SelectSeq(commLogs, IsForward)) = 4
    /\ Len(SelectSeq(commLogs, IsReceive)) = 2 /\ Len(alarmLogs) = 2

\* every row of p is in q at the same place, unchanged
IsPrefixOf(p, q) == Len(p) <= Len(q) /\ \A i \in 1..Len(p) : q[i] = p[i]

(* C29: the audit tables are append-only for the relay.  Every step of the
   relay worker, a failing one included, leaves each CommLog row and each
   AlarmLog row that was in its table in place with all its field values; the
   tables change only by rows added at the end. *)
C29_AuditAppendOnly ==
    [][RelayStep => /\ IsPrefixOf(commLogs, commLogs')
                    /\ IsPrefixOf(alarmLogs, alarmLogs')]_vars

\* an outdoor message was forwarded after an indoor alarm message: the rows of
\* the first message are still there, under those of the second
C29_Witness ==
    /\ Done /\ delivered = 2 /\ cur.kind = "outdoor" /\ cur.result = "forwarded"
    /\ cur.after = "alarmed" /\ cur.c0 >= 2 /\ IsReceive(commLogs[1])
    /\ Len(commLogs) = cur.c0 + 2 /\ Len(alarmLogs) = 1

\* the rows whose station binding a step changes: <<before, after>>
Rebound == {p \in devices \X devices' : p[1].id = p[2].id /\ p[1].station_id # p[2].station_id}

(* C30: the relay never changes bindings.  Every step of the relay worker, the
   insert of auto-registration included, leaves each existing device row in the
   table with its station_id, and a row it adds has a null station_id.  A step
   that changes the station_id of a row is not a step of the relay: it is the
   commit of a bind request answered 200, which sets the station the request
   named on the device it named, or an unbind request answered 200, which sets
   it to null. *)
C30_RelayKeepsBindings ==
    [][/\ RelayStep
          => /\ \A d \in devices :
                   \E e \in devices' : e.id = d.id /\ e.imei = d.imei
                                       /\ e.station_id = d.station_id
             /\ \A e \in devices' :
                   (\A d \in devices : d.id # e.id) => e.station_id = NullId
       /\ \A p \in Rebound :
             /\ ~RelayStep
             /\ \E t \in AdminThreads :
                   /\ areq'[t].code = 200
                   /\ \/ /\ areq[t].op = "bind" /\ areq[t].imei = p[1].imei
                         /\ p[2].station_id = areq[t].sid
                      \/ /\ areq[t].op = "idle" /\ StartsRequest
                         /\ p[2].station_id = NullId]_vars

\* the relay registered a device (unbound) and handled its message while other
\* devices are bound and a bind request has been answered
C30_Witness ==
    /\ Done
    /\ \E d \in devices : d.name = "auto" /\ d.station_id = NullId /\ d.last_seen = delivered
    /\ \E e \in devices : e.station_id # NullId /\ e.name = "manual"
    /\ \E t \in AdminThreads : areq[t].code = 200

(* C31: no self-forwarding.  No forward row, committed or still in the session,
   has the source device as its target, and no publish of the message being
   processed goes to a subscribe topic of the device that sent it. *)
C31_NoSelfForwarding ==
    /\ \A i \in 1..Len(commLogs) :
          IsForward(commLogs[i]) => commLogs[i].target_imei # commLogs[i].source_imei
    /\ \A i \in 1..Len(pending) :
          IsForward(pending[i]) => pending[i].target_imei # pending[i].source_imei
    /\ \A i \in 1..Len(MsgPubs) : LastSegment(MsgPubs[i].topic) # cur.imei

\* the class the publish prefix of the current topic stands for, and the other one
PrefixClass == IF HasPrefix(cur.topic, INDOOR_PUB_PREFIX) THEN "indoor" ELSE "outdoor"
Opposite(type) == IF type = "indoor" THEN "outdoor" ELSE "indoor"

(* C32: routing follows the topic prefix, not the stored class.  Every CommLog
   row of the message being processed, committed or in the session, has the
   source_type of the publish prefix its topic carries, whatever class the
   sender's row is stored with; every forward row of it has the opposite
   target_type, goes to the subscribe prefix of that class, and its target is a
   device stored with the class target_type.  In the whole table every forward
   row has target_type opposite to source_type. *)
C32_RoutingFollowsPrefix ==
    /\ \A r \in Range(MsgComm) \cup Range(pending) :
          /\ r.source_type = PrefixClass
          /\ IsForward(r)
             => /\ r.target_type = Opposite(PrefixClass)
                /\ \E d \in devices : d.imei = r.target_imei /\ d.type = r.target_type
                /\ \E d \in cur.snap : d.imei = r.target_imei /\ d.type = r.target_type
                /\ HasPrefix(r.topic, IF PrefixClass = "indoor" THEN OUTDOOR_SUB_PREFIX
                                      ELSE INDOOR_SUB_PREFIX)
    /\ \A i \in 1..Len(commLogs) :
          IsForward(commLogs[i]) => commLogs[i].target_type = Opposite(commLogs[i].source_type)

\* a message on the indoor prefix from a device stored as outdoor was forwarded:
\* its rows say source_type indoor, its targets are stored as outdoor
C32_Witness ==
    /\ Done /\ HasPrefix(cur.topic, INDOOR_PUB_PREFIX) /\ Len(MsgForwards) >= 1
    /\ \E d \in devices : d.imei = cur.imei /\ d.type = "outdoor"
    /\ \A i \in 1..Len(MsgComm) : MsgComm[i].source_type = "indoor"

\* the stored devices that were unbound in the committed table when the relay
\* started on the current message, and have not been bound since
UnboundAtStart ==
    {d.imei : d \in {e \in cur.ssnap :
                        /\ e.station_id = NullId
                        /\ \E f \in devices : f.id = e.id /\ f.station_id = NullId}}

(* C33: unbind takes effect for later messages.  A device whose unbind was
   committed before the relay started on the message being processed (it is
   unbound in the table as of that start, and no bind has committed since) is
   the target of no publish and of no forward row of that message; when it is
   the source, the message has no publish, no forward row and no alarm row. *)
C33_UnbindTakesEffect ==
    \A T \in UnboundAtStart :
        /\ \A i \in 1..Len(MsgPubs) : LastSegment(MsgPubs[i].topic) # T
        /\ \A r \in Range(MsgForwards) \cup Range(pending) :
              IsForward(r) => r.target_imei # T
        /\ T = cur.imei
           => /\ MsgPubs = <<>> /\ MsgForwards = <<>> /\ MsgAlarms = <<>>
              /\ \A r \in Range(pending) : ~IsForward(r)

\* a first message was fanned out to two outdoor devices, one of them was then
\* unbound, and the second message went to the other one only
C33_Witness ==
    /\ Done /\ delivered = 2 /\ cur.p0 = 2 /\ Len(MsgPubs) = 1 /\ Len(MsgForwards) = 1
    /\ \E T \in UnboundAtStart :
          \E i \in 1..cur.p0 : LastSegment(published[i].topic) = T

(* C34: rebinding requires unbinding first.  A bind request answered 404 or 409
   changes no device row, and every step that changes the station_id of a
   device row moves it from null to a station or from a station to null, never
   from one station directly to another. *)
C34_RebindNeedsUnbind ==
    [][/\ \A t \in AdminThreads :
             (areq'[t] # areq[t] /\ areq'[t].code \in {404, 409}) => devices' = devices
       /\ \A p \in Rebound :
             p[1].station_id = NullId \/ p[2].station_id = NullId]_vars

(* C35: no binding to a deleted station.  Every step leads to a state in which
   each device's non-null station_id is the id of an existing station, and a
   station delete that reaches its commit while a device is bound to the
   station is refused with 409 and leaves the stations as they are. *)
C35_NoBindingToDeletedStation ==
    [][/\ \A d \in devices' :
             d.station_id # NullId => d.station_id \in StationIds(stations')
       /\ \A t \in AdminThreads :
             (areq[t].op = "delete_station" /\ areq'[t].op = "idle"
                /\ ByStation(devices, areq[t].sid) # {})
             => (areq'[t].code = 409 /\ stations' = stations)]_vars

(* C36: device identity is stable.  Every step, of the relay or of an
   administrative request, leaves each device row in the table with the IMEI
   and the class it had: no row is deleted, retyped or renamed to another IMEI,
   so the registered IMEIs only grow; and no two rows share an IMEI, so an IMEI
   has one class, the one it was first stored with. *)
C36_DeviceIdentityStable ==
    [][/\ \A d \in devices :
             \E e \in devices' : e.id = d.id /\ e.imei = d.imei /\ e.type = d.type
       /\ {d.imei : d \in devices} \subseteq {e.imei : e \in devices'}
       /\ \A e, f \in devices' : e.imei = f.imei => e.type = f.type]_vars

\* a stored device was unbound by a request and then sent a message on the
\* prefix of the other class: its row is still there with its class
C36_Witness ==
    /\ Done /\ adminOps = 1 /\ \E t \in AdminThreads : areq[t].code = 200
    /\ \E d \in devices :
          /\ d.imei = cur.imei /\ d.name = "manual" /\ d.last_seen = delivered
          /\ d.station_id = NullId /\ d.type # cur.kind
    /\ \A d \in cur.ssnap : \E e \in devices : e.imei = d.imei /\ e.type = d.type

(* C37: forward status is unconditional.  Every AlarmLog row has
   forward_status 1, and the alarm row of the message being processed lists in
   outdoor_imeis every target of its fan-out, in the order of the publishes,
   those included whose publish call returned an error code. *)
C37_ForwardStatusUnconditional ==
    /\ \A i \in 1..Len(alarmLogs) : alarmLogs[i].forward_status = 1
    /\ Len(MsgAlarms) = 1
       => /\ MsgAlarms[1].outdoor_imeis = JsonDumps(cur.targets)
          /\ Range(cur.targets) = BoundTo(cur.snap, StationIn(cur.snap), "outdoor")
          /\ cur.unsent \subseteq Range(MsgAlarms[1].outdoor_imeis.items)

\* an alarm was fanned out to two outdoor devices, the publish to one of them
\* returned an error code, and the alarm row lists both with forward_status 1
C37_Witness ==
    /\ Done /\ cur.result = "alarmed" /\ Len(cur.targets) = 2
    /\ Cardinality(cur.unsent) = 1
    /\ Len(MsgAlarms) = 1 /\ MsgAlarms[1].forward_status = 1
    /\ Len(MsgAlarms[1].outdoor_imeis.items) = 2

(* C38: start-once guard.  Only the first call of start_mqtt_service creates a
   client and a worker thread: every step leads to a state with at most one
   client and one worker thread, a call made with the flag set changes nothing
   but the count of calls, the flag is never cleared, and once the first
   connection attempt has failed and the worker thread has ended, no later
   step, a start call included, connects. *)
C38_StartOnce ==
    [][/\ link'.clients <= 1 /\ link'.threads <= 1
       /\ link'.clients = (IF link'.started THEN 1 ELSE 0)
       /\ link.started => link'.started
       /\ (link.started /\ link'.calls # link.calls)
          => link' = [link EXCEPT !.calls = @ + 1]
       /\ link.state = "dead" => (link'.state = "dead" /\ link'.subs = {})]_vars

\* the first connection attempt failed and start_mqtt_service was called twice
\* more: still one client, the flag set, no connection
C38_Witness ==
    /\ link.state = "dead" /\ link.calls = MaxStarts /\ link.started
    /\ link.clients = 1 /\ link.threads = 1 /\ link.conns = 0

\* the part of the current topic after a prefix it starts with
AfterPrefix(prefix) == SubSeq(cur.topic, Len(prefix) + 1, Len(cur.topic))

(* C39: the static forwarder.  A message on the host or the slave publish
   prefix whose sender IMEI is a key of BINDING_MAP has exactly one publish per
   receiver listed for the sender, in the order of the list, on the subscribe
   prefix of the other class and with the payload as received; any other
   message has no publish. *)
C39_StaticForwarder ==
    cur.topic # <<>>
    => LET host == HasPrefix(cur.topic, HOST_PUB_PREFIX)
           slave == HasPrefix(cur.topic, SLAVE_PUB_PREFIX)
           sender == IF host THEN AfterPrefix(HOST_PUB_PREFIX)
                     ELSE AfterPrefix(SLAVE_PUB_PREFIX)
           sub == IF host THEN SLAVE_SUB_PREFIX ELSE HOST_SUB_PREFIX
       IN  IF (host \/ slave) /\ sender \in DOMAIN BINDING_MAP
           THEN /\ Len(MsgPubs) = Len(BINDING_MAP[sender])
                /\ \A i \in 1..Len(MsgPubs) :
                      /\ MsgPubs[i].topic = sub \o BINDING_MAP[sender][i]
                      /\ MsgPubs[i].payload = cur.payload
           ELSE MsgPubs = <<>>

============================================================================
